---- MODULE Spec2Model ----
(***************************************************************************)
(* A model of mobi-forge's request pipeline: the placeholder interpolator  *)
(* (src/src/data/mod.rs render_placeholder_string), the data source engine *)
(* (ContextBuilder::process_source / from_source), the route repository    *)
(* (src/src/db/mod.rs), the tenant resolver (src/src/tenancy/mod.rs) and    *)
(* the dispatcher (src/src/http/mod.rs render_dynamic).                     *)
(*                                                                         *)
(* Text.  A Rust string is a sequence of symbols.  A symbol is one          *)
(* character the code looks at ("{", "}", "/", ".") or a run of characters  *)
(* that no operation of the code looks inside ("products", "env.", a URL    *)
(* prefix), written as one TLA+ string.                                     *)
(*                                                                         *)
(* JSON.  A serde_json::Value is a tagged record: [t |-> "null"],           *)
(* [t |-> "num", v |-> n], [t |-> "str", v |-> text], [t |-> "arr",        *)
(* v |-> sequence], [t |-> "obj", v |-> function from key to Value].        *)
(***************************************************************************)
EXTENDS Integers, Sequences, FiniteSets, TLC

VARIABLES
  interp,      \* the interpolator on its own: its inputs and its output
  ds,          \* data resolution on its own: its inputs, the answers, the outcome
  rd,          \* one render_dynamic call: its position, its locals
  env_cache,   \* TemplateService::env_cache: tenant slug -> CachedEnvironment
  tmpl,        \* the template directory and the env_for calls in flight
  response,    \* what render_dynamic has returned to the client
  catalog      \* the catalog of CatalogSearch and how often it was prepared

vars == <<interp, ds, rd, env_cache, tmpl, response, catalog>>

(***************************************************************************)
(* Bounds of the model.                                                    *)
(***************************************************************************)
\* Most chunks (placeholders or plain words) a template string is built of.
MaxChunks == 2
\* Most query parameters in an interpolation input.
MaxParams == 2

(***************************************************************************)
(* JSON values (serde_json::Value)                                         *)
(***************************************************************************)
Null == [t |-> "null"]
Num(n) == [t |-> "num", v |-> n]
Bool(b) == [t |-> "bool", v |-> b]
Str(s) == [t |-> "str", v |-> s]
Word(w) == [t |-> "str", v |-> <<w>>]
Arr(s) == [t |-> "arr", v |-> s]
Obj(f) == [t |-> "obj", v |-> f]
EmptyMap == [k \in {} |-> Null]

is_object(j) == j.t = "obj"
as_str(j) == j.t = "str"
\* Value::get(key): Some only for an object that has the key.
has(j, k) == is_object(j) /\ k \in DOMAIN j.v
\* Map::insert(key, value) on the map of an object.
insert(m, k, x) == [y \in DOMAIN m \cup {k} |-> IF y = k THEN x ELSE m[y]]
\* Map::remove(key).
remove(m, k) == [y \in DOMAIN m \ {k} |-> m[y]]
\* Map::entry(key).or_insert(value): the first write wins.
or_insert(m, k, x) == IF k \in DOMAIN m THEN m ELSE insert(m, k, x)

(***************************************************************************)
(* Text helpers (str::find, str::replace)                                  *)
(***************************************************************************)
Drop(s, n) == SubSeq(s, n + 1, Len(s))
Take(s, n) == SubSeq(s, 1, n)
StartsWith(s, p) == Len(s) >= Len(p) /\ Take(s, Len(p)) = p

\* str::find: the 1-based index of the first match of pat in s, 0 for None.
RECURSIVE FindFrom(_, _, _)
FindFrom(s, pat, i) ==
  IF i + Len(pat) - 1 > Len(s) THEN 0
  ELSE IF SubSeq(s, i, i + Len(pat) - 1) = pat THEN i
  ELSE FindFrom(s, pat, i + 1)

Find(s, pat) == FindFrom(s, pat, 1)

\* str::replace: every non-overlapping match of pat, left to right.
RECURSIVE Replace(_, _, _)
Replace(s, pat, rep) ==
  IF Len(s) < Len(pat) THEN s
  ELSE IF StartsWith(s, pat) THEN rep \o Replace(Drop(s, Len(pat)), pat, rep)
  ELSE <<Head(s)>> \o Replace(Tail(s), pat, rep)

(***************************************************************************)
(* Placeholder interpolator: render_placeholder_string                     *)
(***************************************************************************)
\* format!("{{{{{}}}}}", key)
Placeholder(key) == <<"{", "{", key, "}", "}">>
\* The literal "{{env." and the literal "}}".
EnvOpen == <<"{", "{", "env.">>
Close == <<"}", "}">>
EnvMarker(name) == EnvOpen \o <<name>> \o Close

\* std::env::var(key).unwrap_or_default(); env maps the names that are set.
EnvVar(env, key) == IF key \in DOMAIN env THEN env[key] ELSE <<>>

\* The first pass: for each (key, value) of the map in its iteration order,
\* out = out.replace("{{key}}", value) when the value is a string.
RECURSIVE FirstPass(_, _, _)
FirstPass(out, params, order) ==
  IF order = <<>> THEN out
  ELSE LET key == Head(order)
           value == params[key]
       IN FirstPass(IF as_str(value) THEN Replace(out, Placeholder(key), value.v)
                    ELSE out,
                    params, Tail(order))

\* A second pass that drops an unterminated marker and the text after it.
RECURSIVE EnvPass_cut(_, _)
EnvPass_cut(rest, env) ==
  LET start == Find(rest, EnvOpen) IN
  IF start = 0 THEN rest
  ELSE LET after == Drop(rest, start - 1 + Len(EnvOpen))
           end == Find(after, Close)
       IN IF end = 0
          THEN Take(rest, start - 1)
          ELSE Take(rest, start - 1) \o EnvVar(env, Take(after, end - 1))
               \o EnvPass_cut(Drop(after, end - 1 + Len(Close)), env)

\* The second pass: the while-let loop over "{{env." markers.
RECURSIVE EnvPass(_, _)
EnvPass(rest, env) ==
  LET start == Find(rest, EnvOpen) IN
  IF start = 0 THEN rest
  ELSE LET after == Drop(rest, start - 1 + Len(EnvOpen))
           end == Find(after, Close)
       IN IF end = 0
          THEN Take(rest, start - 1) \o Drop(rest, start - 1)
          ELSE Take(rest, start - 1) \o EnvVar(env, Take(after, end - 1))
               \o EnvPass(Drop(after, end - 1 + Len(Close)), env)

RenderOrdered(template, params, order, env) ==
  EnvPass(FirstPass(template, params, order), env)

\* render_placeholder_string with serde_json's default map (a BTreeMap): the
\* keys are visited in sorted order.
RECURSIVE SortedKeys(_, _)
SortedKeys(keys, sorted) ==
  IF sorted = <<>> THEN <<>>
  ELSE IF Head(sorted) \in keys THEN <<Head(sorted)>> \o SortedKeys(keys, Tail(sorted))
  ELSE SortedKeys(keys, Tail(sorted))

\* Every object key of the model, in the byte order a BTreeMap iterates in.
KeyOrder ==
  <<"Authorization", "a", "b", "c", "data", "headers", "id", "items", "method",
    "name", "page", "params", "path", "payload", "product", "product_id",
    "product_slug", "provider", "q", "query", "site", "slug", "sql", "template",
    "title", "url">>

MapIter(m) == SortedKeys(DOMAIN m, KeyOrder)

render_placeholder_string(template, query_params, env) ==
  RenderOrdered(template, query_params, MapIter(query_params), env)

(***************************************************************************)
(* The world outside the process                                           *)
(***************************************************************************)
\* The process environment (std::env::var): the names that are set.
ProcessEnv == [n \in {<<"MOBI_API_TOKEN">>} |-> <<"tok">>]

\* serde_json::from_str on the texts the model's upstreams and files hold:
\* the parsed value, or no value for a text that is not JSON.
NotJson == [ok |-> FALSE, val |-> Null]
Parsed(j) == [ok |-> TRUE, val |-> j]
Chair == Obj([k \in {"name"} |-> Word("chair")])
from_str(text) ==
  CASE text = <<"{\"name\":\"chair\"}">> -> Parsed(Chair)
    [] text = <<"{\"data\":{\"name\":\"chair\"}}">> ->
         Parsed(Obj([k \in {"data"} |-> Chair]))
    [] text = <<"[]">> -> Parsed(Arr(<<>>))
    [] OTHER -> NotJson

\* The files under the working directory and elsewhere (tokio::fs).
MockFs ==
  (<<"mock-data", "/", "home.json">> :> <<"{\"name\":\"chair\"}">>)
  @@ (<<"mock-data", "/", "broken.json">> :> <<"oops">>)
  @@ (<<"/", "etc", "/", "passwd.json">> :> <<"[]">>)
  @@ (<<"mock-data", "/", "..", "/", "secret.json">> :>
        <<"{\"data\":{\"name\":\"chair\"}}">>)

\* What an upstream can answer to one outbound request: a response with a
\* status and a body, or a transport failure.
Response(status, body) == [k |-> "response", status |-> status, body |-> body]
Refused == [k |-> "refused", status |-> 0, body |-> <<>>]
UpstreamAnswers ==
  {Response(200, <<"{\"name\":\"chair\"}">>),
   Response(200, <<"{\"data\":{\"name\":\"chair\"}}">>),
   Response(200, <<"oops">>),
   Response(500, <<"oops">>),
   Response(404, <<"[]">>),
   Refused}

\* StatusCode::is_success
is_success(status) == status >= 200 /\ status < 300

(***************************************************************************)
(* Data source engine: DataSourceCfg, process_source                       *)
(***************************************************************************)
StaticCfg(payload) ==
  [kind |-> "static", payload |-> payload, url |-> <<>>, method |-> Null,
   headers |-> Null, path |-> <<>>]

\* Option<String>: the field is missing, null or a string.
opt_string(source, k) == k \notin DOMAIN source.v \/ source.v[k].t \in {"null", "str"}
string_field(source, k) == has(source, k) /\ as_str(source.v[k])
opt(source, k) == IF k \in DOMAIN source.v THEN source.v[k] ELSE Null

\* serde_json::from_value::<DataSourceCfg>(source), and the whole source as a
\* Static payload when that fails.  The derived Deserialize of an internally
\* tagged enum reads a map that holds the tag, and also a sequence
\* [tag, field, ...] that holds every field of the variant in the order of its
\* declaration.
variant_fields(p) ==
  CASE p = <<"static">> -> <<"payload">>
    [] p = <<"db_query">> -> <<"sql", "params">>
    [] p = <<"http">> -> <<"url", "method", "headers">>
    [] p = <<"mock_file">> -> <<"path">>
    [] OTHER -> <<>>

\* visit_seq: the sequence [tag, field, ...] as the map it stands for; a
\* sequence of another length stands for none and is kept as it is.
seq_as_map(source, tag, names, fields) ==
  IF names # <<>> /\ Len(fields) = Len(names)
  THEN Obj([k \in {"provider"} \cup {names[i] : i \in DOMAIN names} |->
              IF k = "provider" THEN tag
              ELSE fields[CHOOSE i \in DOMAIN names : names[i] = k]])
  ELSE source

tagged_content(source) ==
  IF source.t = "arr" /\ source.v # <<>> /\ as_str(Head(source.v))
  THEN seq_as_map(source, Head(source.v), variant_fields(Head(source.v).v),
                  Tail(source.v))
  ELSE source

\* The variant the tag of the map c names, when c holds its required fields.
variant_of(source, c, p) ==
  CASE p = <<"static">> /\ has(c, "payload") -> StaticCfg(c.v["payload"])
    [] p = <<"db_query">> /\ string_field(c, "sql") ->
         [kind |-> "db_query", payload |-> Null, url |-> <<>>, method |-> Null,
          headers |-> Null, path |-> <<>>]
    [] p = <<"http">> /\ string_field(c, "url") /\ opt_string(c, "method") ->
         [kind |-> "http", payload |-> Null, url |-> c.v["url"].v,
          method |-> opt(c, "method"), headers |-> opt(c, "headers"),
          path |-> <<>>]
    [] p = <<"mock_file">> /\ string_field(c, "path") ->
         [kind |-> "mock_file", payload |-> Null, url |-> <<>>, method |-> Null,
          headers |-> Null, path |-> c.v["path"].v]
    [] OTHER -> StaticCfg(source)

tagged_variant(source, c) ==
  IF has(c, "provider") /\ as_str(c.v["provider"])
  THEN variant_of(source, c, c.v["provider"].v)
  ELSE StaticCfg(source)

parse_cfg(source) == tagged_variant(source, tagged_content(source))

\* str::to_uppercase on the method words of the model.
to_uppercase(w) ==
  CASE w = <<"get">> -> <<"GET">>
    [] w = <<"post">> -> <<"POST">>
    [] w = <<"put">> -> <<"PUT">>
    [] w = <<"patch">> -> <<"PATCH">>
    [] w = <<"delete">> -> <<"DELETE">>
    [] w = <<"Post">> -> <<"POST">>
    [] w = <<"pAtCh">> -> <<"PATCH">>
    [] w = <<"Delete">> -> <<"DELETE">>
    [] w = <<"head">> -> <<"HEAD">>
    [] w = <<" post">> -> <<" POST">>
    [] OTHER -> w

\* A match on the method as the config spells it.
request_method_exact(method) ==
  LET m == IF as_str(method) THEN method.v ELSE <<"GET">> IN
  IF m \in {<<"POST">>, <<"PUT">>, <<"PATCH">>, <<"DELETE">>} THEN m ELSE <<"GET">>

\* method.unwrap_or("GET").to_uppercase() and the match on it.
request_method(method) ==
  LET m == to_uppercase(IF as_str(method) THEN method.v ELSE <<"GET">>) IN
  IF m \in {<<"POST">>, <<"PUT">>, <<"PATCH">>, <<"DELETE">>} THEN m ELSE <<"GET">>

\* The headers of the request: each string-valued entry, interpolated.
request_headers(headers, query_params) ==
  IF is_object(headers)
  THEN [k \in {h \in DOMAIN headers.v : as_str(headers.v[h])} |->
          render_placeholder_string(headers.v[k].v, query_params, ProcessEnv)]
  ELSE [k \in {} |-> <<>>]

\* A request that sends the url and the headers as the config has them.
http_request_raw(cfg, query_params) ==
  [method |-> request_method(cfg.method),
   url |-> cfg.url,
   headers |-> IF is_object(cfg.headers)
               THEN [k \in DOMAIN cfg.headers.v |->
                       IF as_str(cfg.headers.v[k]) THEN cfg.headers.v[k].v ELSE <<>>]
               ELSE [k \in {} |-> <<>>]]

\* The outbound request of an Http source.
http_request(cfg, query_params) ==
  [method |-> request_method(cfg.method),
   url |-> render_placeholder_string(cfg.url, query_params, ProcessEnv),
   headers |-> request_headers(cfg.headers, query_params)]

\* Errors of the engine (anyhow::Error), by what they carry.
NoErr == [kind |-> "none", status |-> 0, body |-> <<>>]
Err(kind) == [kind |-> kind, status |-> 0, body |-> <<>>]
\* anyhow::bail!("HTTP error {}: {}", status, error_body)
HttpError(status, body) == [kind |-> "http_status", status |-> status, body |-> body]

\* The result of one resolution: a value, an error, or still awaiting the
\* upstream ("pending": reqwest's send().await has not returned).
Done(val, calls) == [st |-> "ok", val |-> val, err |-> NoErr, calls |-> calls]
Failed(err, calls) == [st |-> "err", val |-> Null, err |-> err, calls |-> calls]
Pending(calls) == [st |-> "pending", val |-> Null, err |-> NoErr, calls |-> calls]

\* An Http arm that does not look at the status: any body is parsed.
http_outcome_any_status(req, answer) ==
  IF answer.k = "refused" THEN Failed(Err("fetch"), <<req>>)
  ELSE LET parsed == from_str(answer.body) IN
       IF parsed.ok THEN Done(parsed.val, <<req>>)
       ELSE Failed(Err("parse_json"), <<req>>)

\* The Http arm from send() on: answer is what the upstream sent back.
http_outcome(req, answer) ==
  IF answer.k = "refused" THEN Failed(Err("fetch"), <<req>>)
  ELSE IF ~is_success(answer.status)
       THEN Failed(HttpError(answer.status, answer.body), <<req>>)
  ELSE LET parsed == from_str(answer.body) IN
       IF parsed.ok THEN Done(parsed.val, <<req>>)
       ELSE Failed(Err("parse_json"), <<req>>)

\* PathBuf::from(base).join(path): an absolute path replaces the base.
path_join(base, path) ==
  IF path # <<>> /\ Head(path) = "/" THEN path ELSE base \o <<"/">> \o path

\* The MockFile arm.
mock_file(path) ==
  LET base == IF <<"MOCK_DATA_DIR">> \in DOMAIN ProcessEnv
              THEN ProcessEnv[<<"MOCK_DATA_DIR">>] ELSE <<"mock-data">>
      resolved == path_join(base, path)
  IN IF resolved \notin DOMAIN MockFs THEN Failed(Err("read_file"), <<>>)
     ELSE LET parsed == from_str(MockFs[resolved]) IN
          IF parsed.ok THEN Done(parsed.val, <<>>) ELSE Failed(Err("parse_file"), <<>>)

\* Repo::json_query: no SQL backend in file mode, an empty array.
json_query == Arr(<<>>)

\* A process_source that sends the request of an Http source a second time
\* when the upstream refused the first.
process_source_retry(source, query_params, answers, issued) ==
  LET cfg == parse_cfg(source) IN
  CASE cfg.kind = "static" -> Done(cfg.payload, <<>>)
    [] cfg.kind = "db_query" -> Done(json_query, <<>>)
    [] cfg.kind = "http" ->
         LET req == http_request(cfg, query_params) IN
         IF Len(answers) <= issued THEN Pending(<<req>>)
         ELSE IF answers[issued + 1].k # "refused"
         THEN http_outcome(req, answers[issued + 1])
         ELSE IF Len(answers) <= issued + 1 THEN Pending(<<req, req>>)
         ELSE [http_outcome(req, answers[issued + 2]) EXCEPT !.calls = <<req, req>>]
    [] cfg.kind = "mock_file" -> mock_file(cfg.path)

\* ContextBuilder::process_source.  answers holds what the upstream has sent
\* back so far to the requests of this from_source call, issued holds how many
\* requests were issued before this one.
process_source(source, query_params, answers, issued) ==
  LET cfg == parse_cfg(source) IN
  CASE cfg.kind = "static" -> Done(cfg.payload, <<>>)
    [] cfg.kind = "db_query" -> Done(json_query, <<>>)
    [] cfg.kind = "http" ->
         LET req == http_request(cfg, query_params) IN
         IF Len(answers) <= issued THEN Pending(<<req>>)
         ELSE http_outcome(req, answers[issued + 1])
    [] cfg.kind = "mock_file" -> mock_file(cfg.path)

(***************************************************************************)
(* Data source engine: ContextBuilder::from_source                         *)
(***************************************************************************)
\* json!({"title": tenant, "slug": tenant})
tenant_site(tenant) == Obj([k \in {"slug", "title"} |-> Str(tenant)])

\* The site step.  v["site"] = ... on a value that is neither an object nor
\* null panics (serde_json's IndexMut), on null it makes the object.
site_panics(v) == ~is_object(v) /\ v # Null

site_merge(v, tenant) ==
  IF has(v, "site") /\ is_object(v.v["site"])
  THEN Obj(insert(v.v, "site",
         Obj(or_insert(or_insert(v.v["site"].v, "slug", Str(tenant)),
                       "title", Str(tenant)))))
  ELSE IF is_object(v) THEN Obj(insert(v.v, "site", tenant_site(tenant)))
  ELSE Obj(insert(EmptyMap, "site", tenant_site(tenant)))

\* keys_to_process: the keys whose value is an object with a `provider` key, in
\* the map's iteration order.
RECURSIVE FilterKeys(_, _)
FilterKeys(obj, keys) ==
  IF keys = <<>> THEN <<>>
  ELSE IF has(obj[Head(keys)], "provider")
       THEN <<Head(keys)>> \o FilterKeys(obj, Tail(keys))
       ELSE FilterKeys(obj, Tail(keys))

\* A keys_to_process that takes every object-valued key, provider or not.
RECURSIVE FilterObjects(_, _)
FilterObjects(obj, keys) ==
  IF keys = <<>> THEN <<>>
  ELSE IF is_object(obj[Head(keys)])
       THEN <<Head(keys)>> \o FilterObjects(obj, Tail(keys))
       ELSE FilterObjects(obj, Tail(keys))

keys_to_process_all_objects(obj) == FilterObjects(obj, MapIter(obj))

keys_to_process(obj) == FilterKeys(obj, MapIter(obj))

\* A nested value stored as it was resolved, `data` key and all.
keep_wrapped(nested_value) == nested_value

\* A resolved nested value with its `data` key taken out, when it has one.
unwrap_data(nested_value) ==
  IF has(nested_value, "data") THEN nested_value.v["data"] ELSE nested_value

\* One process_source call as the log keeps it: the key it was made for (""
\* for the top-level source), the source handed in, and what came back.
LogEntry(key, source, r) == [key |-> key, source |-> source, st |-> r.st, val |-> r.val]

\* An expand_nested that does not keep the source on a failure: it stores null.
RECURSIVE expand_nested_clobber(_, _, _, _)
expand_nested_clobber(acc, keys, query_params, answers) ==
  IF keys = <<>> \/ acc.st = "pending" THEN acc
  ELSE LET key == Head(keys)
           nested_source == acc.obj[key]
           r == process_source(nested_source, query_params, answers, Len(acc.calls))
           next ==
             [st |-> IF r.st = "pending" THEN "pending" ELSE "ok",
              obj |-> IF r.st = "ok" THEN insert(acc.obj, key, unwrap_data(r.val))
                      ELSE IF r.st = "err" THEN insert(acc.obj, key, Null)
                      ELSE acc.obj,
              calls |-> acc.calls \o r.calls,
              log |-> Append(acc.log, LogEntry(key, nested_source, r))]
       IN expand_nested_clobber(next, Tail(keys), query_params, answers)

\* The loop over keys_to_process.  acc is the loop's state: the object, the
\* outbound requests issued so far, the process_source calls made so far,
\* and whether the loop is suspended in a send().await.
RECURSIVE expand_nested(_, _, _, _)
expand_nested(acc, keys, query_params, answers) ==
  IF keys = <<>> \/ acc.st = "pending" THEN acc
  ELSE LET key == Head(keys)
           nested_source == acc.obj[key]
           r == process_source(nested_source, query_params, answers, Len(acc.calls))
           next ==
             [st |-> IF r.st = "pending" THEN "pending" ELSE "ok",
              obj |-> IF r.st = "ok" THEN insert(acc.obj, key, unwrap_data(r.val))
                      ELSE acc.obj,
              calls |-> acc.calls \o r.calls,
              log |-> Append(acc.log, LogEntry(key, nested_source, r))]
       IN expand_nested(next, Tail(keys), query_params, answers)

\* A merge in which the query parameter wins over the key of the context.
RECURSIVE merge_params_overwrite(_, _, _)
merge_params_overwrite(obj, query_params, keys) ==
  IF keys = <<>> THEN obj
  ELSE merge_params_overwrite(insert(obj, Head(keys), query_params[Head(keys)]),
                              query_params, Tail(keys))

\* obj.entry(key).or_insert(value) for every query parameter.
RECURSIVE merge_params(_, _, _)
merge_params(obj, query_params, keys) ==
  IF keys = <<>> THEN obj
  ELSE merge_params(or_insert(obj, Head(keys), query_params[Head(keys)]),
                    query_params, Tail(keys))

\* A page step that makes a new page holding the query alone.
page_query_fresh(obj, query_params) ==
  IF "q" \in DOMAIN query_params /\ "page" \in DOMAIN obj /\ is_object(obj["page"])
  THEN insert(obj, "page", Obj(insert(EmptyMap, "query", query_params["q"])))
  ELSE obj

\* page.query = q when there is a q and an object-typed page.
page_query(obj, query_params) ==
  IF "q" \in DOMAIN query_params /\ "page" \in DOMAIN obj /\ is_object(obj["page"])
  THEN insert(obj, "page", Obj(insert(obj["page"].v, "query", query_params["q"])))
  ELSE obj

\* What a from_source call has come to.  st: "ok" (a context is returned),
\* "err" (an error is returned), "panic" (the task aborts), "pending" (awaiting
\* an upstream).  top is the resolved top-level payload, merged the value after
\* the site step, expanded the value after the nested expansion, ctx the
\* returned context; calls are the outbound requests issued and log the
\* process_source calls made, both in order.
Outcome(st, err, top, merged, expanded, ctx, calls, log) ==
  [st |-> st, err |-> err, top |-> top, merged |-> merged, expanded |-> expanded,
   ctx |-> ctx, calls |-> calls, log |-> log]

from_source(tenant, source, query_params, answers) ==
  LET r == process_source(source, query_params, answers, 0) IN
  IF r.st = "pending"
  THEN Outcome("pending", NoErr, Null, Null, Null, Null, r.calls, <<LogEntry("", source, r)>>)
  ELSE IF r.st = "err"
  THEN Outcome("err", r.err, Null, Null, Null, Null, r.calls, <<LogEntry("", source, r)>>)
  ELSE IF site_panics(r.val)
  THEN Outcome("panic", NoErr, r.val, Null, Null, Null, r.calls, <<LogEntry("", source, r)>>)
  ELSE
    LET merged == site_merge(r.val, tenant)
        e == expand_nested([st |-> "ok", obj |-> merged.v, calls |-> r.calls,
                            log |-> <<LogEntry("", source, r)>>],
                           keys_to_process(merged.v), query_params, answers)
    IN IF e.st = "pending"
       THEN Outcome("pending", NoErr, r.val, merged, Null, Null, e.calls, e.log)
       ELSE Outcome("ok", NoErr, r.val, merged, Obj(e.obj),
                    Obj(page_query(merge_params(e.obj, query_params,
                                                MapIter(query_params)),
                                   query_params)),
                    e.calls, e.log)

(***************************************************************************)
(* Route repository (Repo) and tenant resolver                             *)
(***************************************************************************)
None == [some |-> FALSE, v |-> <<>>]
Some(x) == [some |-> TRUE, v |-> x]

Acme == <<"acme">>
Beta == <<"beta">>
Ghost == <<"ghost">>
Shared == <<"_shared">>

\* An object from a sequence of <<key, value>> pairs.
ObjOf(pairs) ==
  Obj([k \in {pairs[i][1] : i \in DOMAIN pairs} |->
         pairs[CHOOSE i \in DOMAIN pairs : pairs[i][1] = k][2]])

StaticSource(payload) == ObjOf(<<<<"provider", Word("static")>>, <<"payload", payload>>>>)
HttpSource(url) == ObjOf(<<<<"provider", Word("http")>>, <<"url", Str(url)>>>>)
ItemsUrl == <<"https://api.example.com/items/">> \o Placeholder("id")

RouteCfg(path, template_name, data_source) ==
  [path |-> path, template_name |-> template_name, data_source |-> data_source]

IndexHtml == <<"index", ".", "html">>
ProductHtml == <<"pages", "/", "product", ".", "html">>

\* The routes file the repository was loaded from (Config): acme has its own
\* route list, beta is a listed tenant without one, ghost is unknown.
RepoConfig ==
  [tenants |-> <<Acme, Beta>>,
   routes |->
     (Acme :> <<RouteCfg(<<"/">>, IndexHtml, StaticSource(ObjOf(<<<<"title", Word("Home")>>>>))),
                RouteCfg(<<"/", "items">>, <<"items", ".", "html">>, HttpSource(ItemsUrl)),
                RouteCfg(<<"/", "product">>, ProductHtml,
                         StaticSource(ObjOf(<<<<"page", ObjOf(<<<<"name", Word("product")>>>>)>>>>))),
                RouteCfg(<<"/">>, <<"other", ".", "html">>, Null),
                RouteCfg(<<"/", "docs", "/">>, <<"docs", ".", "html">>,
                         StaticSource(ObjOf(<<<<"items", HttpSource(ItemsUrl)>>,
                                              <<"page", HttpSource(ItemsUrl)>>>>)))>>)
     @@ (Shared :> <<RouteCfg(<<"/">>, IndexHtml, StaticSource(Obj(EmptyMap))),
                     RouteCfg(<<"/", "about">>, <<"about", ".", "html">>, Null)>>)]

\* A search that goes on after a match and returns the last one.
RECURSIVE find_last_in(_, _)
find_last_in(list, path) ==
  IF list = <<>> THEN None
  ELSE IF list[Len(list)].path = path
       THEN Some([template_name |-> list[Len(list)].template_name,
                  data_source |-> list[Len(list)].data_source])
       ELSE find_last_in(SubSeq(list, 1, Len(list) - 1), path)

\* list.iter().find(|r| r.path == path)
RECURSIVE find_in(_, _)
find_in(list, path) ==
  IF list = <<>> THEN None
  ELSE IF Head(list).path = path
       THEN Some([template_name |-> Head(list).template_name,
                  data_source |-> Head(list).data_source])
       ELSE find_in(Tail(list), path)

\* Repo::find_route: the tenant's list, or _shared's when the tenant has none.
find_route(tenant, path) ==
  LET routes == RepoConfig.routes IN
  IF tenant \in DOMAIN routes THEN find_in(routes[tenant], path)
  ELSE IF Shared \in DOMAIN routes THEN find_in(routes[Shared], path)
  ELSE None

\* Repo::tenant_exists
tenant_exists(slug) ==
  \/ \E i \in DOMAIN RepoConfig.tenants : RepoConfig.tenants[i] = slug
  \/ slug \in DOMAIN RepoConfig.routes

\* A resolver that lets every slug through.
resolve_any(headers, tenant_slug) == Some(tenant_slug)

\* A resolver that takes the tenant from the Host header when there is one.
resolve_by_host(headers, tenant_slug) ==
  LET slug == IF "host" \in DOMAIN headers THEN headers["host"] ELSE tenant_slug
  IN IF tenant_exists(slug) THEN Some(slug) ELSE None

\* TenantResolver::resolve: the slug as it was given, or the error "tenant not
\* found"; the headers are not looked at.
resolve(headers, tenant_slug) ==
  IF tenant_exists(tenant_slug) THEN Some(tenant_slug) ELSE None

(***************************************************************************)
(* Template service, as far as the dispatcher needs it: env_for as one step *)
(***************************************************************************)
File(rel, content, len, mtime) ==
  [rel |-> rel, content |-> content, len |-> len, mtime |-> mtime]

\* The template directory: root name -> its files, in read_dir order.
TemplateTree ==
  (Shared :> <<File(IndexHtml, "shared index", 12, 1),
               File(<<"about", ".", "html">>, "shared about", 12, 1),
               File(ProductHtml, "shared product", 14, 1),
               File(<<".", "draft", ".", "html">>, "hidden", 6, 1),
               File(<<"logo", ".", "png">>, "png", 3, 1)>>)
  @@ (Acme :> <<File(IndexHtml, "acme index", 10, 2),
                File(<<"items", ".", "html">>, "acme items", 10, 2),
                File(<<"broken", ".", "html">>, "{% broken", 9, 2)>>)

\* Path::file_name of a relative path: what follows the last "/".
RECURSIVE file_name(_)
file_name(rel) ==
  LET i == Find(rel, <<"/">>) IN IF i = 0 THEN rel ELSE file_name(Drop(rel, i))

\* Path::extension: what follows the last "." of the file name, none when the
\* name has no "." or only a leading one.
RECURSIVE after_last_dot(_)
after_last_dot(name) ==
  LET i == Find(name, <<".">>) IN IF i = 0 THEN name ELSE after_last_dot(Drop(name, i))

extension(rel) ==
  LET name == file_name(rel) IN
  IF name = <<>> \/ Find(Tail(name), <<".">>) = 0 THEN None
  ELSE Some(after_last_dot(name))

\* An inclusion that takes a file without an extension for one outside the
\* list.
should_include_listed(rel) ==
  LET name == file_name(rel) IN
  /\ name # <<>>
  /\ Head(name) # "."
  /\ LET ext == extension(rel) IN
     ext.some /\ ext.v \in {<<"html">>, <<"jinja">>, <<"j2">>, <<"txt">>, <<"jinja2">>}

should_include(rel) ==
  LET name == file_name(rel) IN
  /\ name # <<>>
  /\ Head(name) # "."
  /\ LET ext == extension(rel) IN
     ~ext.some \/ ext.v \in {<<"html">>, <<"jinja">>, <<"j2">>, <<"txt">>, <<"jinja2">>}

\* A u64 of DefaultHasher, kept as what was written into the hasher (two
\* hashes are equal when the writes are); zero is the value 0.
Zero == [zero |-> TRUE, writes |-> <<>>]
Finish(writes) == [zero |-> FALSE, writes |-> writes]

RECURSIVE hash_files(_)
hash_files(files) ==
  IF files = <<>> THEN <<>>
  ELSE IF should_include(Head(files).rel)
       THEN <<<<Head(files).rel, Head(files).len, Head(files).mtime>>>>
            \o hash_files(Tail(files))
       ELSE hash_files(Tail(files))

\* A hash that takes a missing root for an empty one.
fingerprint_for_present(tree, root) ==
  Finish(hash_files(IF root \in DOMAIN tree THEN tree[root] ELSE <<>>))

fingerprint_for(tree, root) ==
  IF root \notin DOMAIN tree THEN Zero ELSE Finish(hash_files(tree[root]))

\* A fingerprint that also covers the root of acme, whoever the tenant is.
scan_fingerprint_with_acme(tree, tenant_slug) ==
  Finish(<<fingerprint_for(tree, Shared), fingerprint_for(tree, Acme),
           fingerprint_for(tree, tenant_slug)>>)

\* A fingerprint of the shared root alone.
scan_fingerprint_shared(tree, tenant_slug) ==
  Finish(<<fingerprint_for(tree, Shared), Zero>>)

scan_fingerprint(tree, tenant_slug) ==
  Finish(<<fingerprint_for(tree, Shared), fingerprint_for(tree, tenant_slug)>>)

\* rel.to_string_lossy().replace('\\', "/"): the key of a file in the map.
template_key(rel) == Replace(rel, <<"\\">>, <<"/">>)

\* The loop of load_templates over the files of a root, in the order the walk
\* meets them: map.insert(rel, content) for each included file, so the last
\* file of a key wins.
RECURSIVE insert_files(_, _)
insert_files(map, files) ==
  IF files = <<>> THEN map
  ELSE insert_files(IF should_include(Head(files).rel)
                    THEN insert(map, template_key(Head(files).rel), Head(files).content)
                    ELSE map,
                    Tail(files))

\* load_templates: key -> content of the included files of a root.
load_templates(tree, root) ==
  IF root \notin DOMAIN tree THEN [n \in {} |-> ""]
  ELSE insert_files([n \in {} |-> ""], tree[root])

\* A read_templates in which the shared file keeps its key.
read_templates_shared_first(tree, tenant_slug) ==
  LET shared == load_templates(tree, Shared)
      own == load_templates(tree, tenant_slug)
  IN [n \in DOMAIN shared \cup DOMAIN own |->
        IF n \in DOMAIN shared THEN shared[n] ELSE own[n]]

\* read_templates: map = load(shared); map.extend(load(tenant)).
read_templates(tree, tenant_slug) ==
  LET shared == load_templates(tree, Shared)
      own == load_templates(tree, tenant_slug)
  IN [n \in DOMAIN shared \cup DOMAIN own |-> IF n \in DOMAIN own THEN own[n] ELSE shared[n]]

\* CachedEnvironment { env, fingerprint }
CachedEnvironment(env, fingerprint) == [env |-> env, fingerprint |-> fingerprint]

\* A hit test that does not compare the fingerprints.
cache_hit_present(cache, tenant_slug, fingerprint) == tenant_slug \in DOMAIN cache

\* env_cache.get(tenant_slug) returned an entry whose fingerprint is the
\* one just computed.
cache_hit(cache, tenant_slug, fingerprint) ==
  tenant_slug \in DOMAIN cache /\ cache[tenant_slug].fingerprint = fingerprint

\* An insert that drops the entries of the other keys.
cache_insert_alone(cache, tenant_slug, cached) == [t \in {tenant_slug} |-> cached]

\* env_cache.insert(tenant_slug, cached): the entry of this key is replaced.
cache_insert(cache, tenant_slug, cached) ==
  [t \in DOMAIN cache \cup {tenant_slug} |-> IF t = tenant_slug THEN cached ELSE cache[t]]

\* env_for with a readable tree: the cached environment when the fingerprints
\* agree, a newly built and stored one otherwise.
env_for(cache, tree, tenant_slug) ==
  LET fingerprint == scan_fingerprint(tree, tenant_slug) IN
  IF cache_hit(cache, tenant_slug, fingerprint)
  THEN [env |-> cache[tenant_slug].env, cache |-> cache]
  ELSE LET env == read_templates(tree, tenant_slug) IN
       [env |-> env,
        cache |-> cache_insert(cache, tenant_slug, CachedEnvironment(env, fingerprint))]

(***************************************************************************)
(* Request dispatcher: render_dynamic                                      *)
(***************************************************************************)
\* str::trim_start_matches(c)
RECURSIVE trim_start_matches(_, _)
trim_start_matches(s, c) ==
  IF s # <<>> /\ Head(s) = c THEN trim_start_matches(Tail(s), c) ELSE s

\* str::trim, with " " the whitespace of the model.
RECURSIVE trim_end(_)
trim_end(s) ==
  IF s # <<>> /\ s[Len(s)] = " " THEN trim_end(Take(s, Len(s) - 1)) ELSE s

trim(s) == trim_end(trim_start_matches(s, " "))

infer_template_name(path) ==
  LET normalized == trim_start_matches(trim(path), "/") IN
  IF normalized = <<>> \/ normalized[Len(normalized)] = "/" THEN IndexHtml
  ELSE IF Find(normalized, <<".">>) # 0 THEN normalized
  ELSE normalized \o <<".", "html">>

\* path.unwrap_or_else(|| "/")
clean_path_of(path) == IF path.some THEN path.v ELSE <<"/">>

db_path_of(clean_path) ==
  IF clean_path # <<>> /\ Head(clean_path) = "/" THEN clean_path
  ELSE <<"/">> \o clean_path

normalized_path_of(clean_path) == trim_start_matches(clean_path, "/")

\* A product slug without the filter on the empty slug.
product_slug_of_unfiltered(normalized_path) ==
  IF StartsWith(normalized_path, <<"products", "/">>)
  THEN Some(Drop(normalized_path, 2))
  ELSE None

\* normalized_path.strip_prefix("products/").filter(|slug| !slug.is_empty())
product_slug_of(normalized_path) ==
  IF StartsWith(normalized_path, <<"products", "/">>) /\ Len(normalized_path) > 2
  THEN Some(Drop(normalized_path, 2))
  ELSE None

\* An injection that keeps the values the client sent for the three keys.
params_map_of_client_wins(params, product_slug) ==
  IF product_slug.some
  THEN or_insert(or_insert(or_insert(params, "slug", Str(product_slug.v)),
                           "product_slug", Str(product_slug.v)),
                 "product_id", Str(product_slug.v))
  ELSE params

\* The three inserts of the slug into the copy of the query parameters.
params_map_of(params, product_slug) ==
  IF product_slug.some
  THEN insert(insert(insert(params, "slug", Str(product_slug.v)),
                     "product_slug", Str(product_slug.v)),
              "product_id", Str(product_slug.v))
  ELSE params

\* A choice of the template name that prefers the route to the override.
template_name_of_route_first(template_override, route, product_slug, clean_path) ==
  IF route.some THEN route.v.template_name
  ELSE IF template_override.some THEN template_override.v
  ELSE IF product_slug.some THEN ProductHtml
  ELSE infer_template_name(clean_path)

template_name_of(template_override, route, product_slug, clean_path) ==
  IF template_override.some THEN template_override.v
  ELSE IF route.some THEN route.v.template_name
  ELSE IF product_slug.some THEN ProductHtml
  ELSE infer_template_name(clean_path)

\* The product-detail source of the json! literal.
ProductSource ==
  ObjOf(<<<<"provider", Word("http")>>,
          <<"url", Str(<<"https://api.mobicms.com.br/api/furnitures/">>
                       \o Placeholder("product_id"))>>,
          <<"method", Word("GET")>>,
          <<"headers", ObjOf(<<<<"Authorization",
                                 Str(<<"Bearer ">> \o EnvMarker("MOBI_API_TOKEN"))>>>>)>>>>)

data_source_of(route, product_slug) ==
  IF route.some THEN route.v.data_source
  ELSE IF product_slug.some
       THEN StaticSource(ObjOf(<<<<"product", ProductSource>>>>))
       ELSE StaticSource(Obj(EmptyMap))

\* The (StatusCode, String) of an Err, and the Html of an Ok.
\* body is the message of an Err, err the engine's error it was made from,
\* template and ctx what was rendered into the Html.
NoResponse == [status |-> 0, body |-> "", err |-> NoErr, template |-> "", ctx |-> Null]
\* internal(e)
internal(message) ==
  [status |-> 500, body |-> message, err |-> NoErr, template |-> "", ctx |-> Null]
internal_err(err) ==
  [status |-> 500, body |-> "data source", err |-> err, template |-> "", ctx |-> Null]
\* A lookup miss reported like every other failure.
NotFound_as_failure(message) ==
  [status |-> 500, body |-> message, err |-> NoErr, template |-> "", ctx |-> Null]
NotFound(message) ==
  [status |-> 404, body |-> message, err |-> NoErr, template |-> "", ctx |-> Null]
Html(template, ctx) ==
  [status |-> 200, body |-> "html", err |-> NoErr, template |-> template, ctx |-> ctx]

\* Most requests served in one behaviour.
MaxRequests == 2

Tenants == {Acme, Beta, Ghost}
\* The request headers (HeaderMap): header name -> value.
NoHeaders == [h \in {} |-> <<>>]
Paths ==
  {None, Some(<<>>), Some(<<"about">>), Some(<<"items">>), Some(<<"product">>),
   Some(<<"products", "/", "xyz">>), Some(<<"products", "/">>),
   Some(<<"docs", "/">>), Some(<<"robots", ".", "txt">>),
   Some(<<"/", "robots", ".", "txt">>), Some(<<"about", " ">>), Some(<<"broken">>)}
Overrides == {None, Some(IndexHtml), Some(<<"custom", ".", "html">>)}
Queries ==
  {EmptyMap,
   ObjOf(<<<<"id", Word("42")>>, <<"q", Word("chair")>>, <<"slug", Word("evil")>>,
           <<"product_id", Word("evil")>>>>).v}

Requests ==
  [tenant : Tenants, headers : {NoHeaders}, path : Paths, template : Overrides,
   params : Queries, fs_ok : BOOLEAN]

NotStarted == Outcome("start", NoErr, Null, Null, Null, Null, <<>>, <<>>)

\* The locals of render_dynamic at its entry, up to the first await.
Entry(req, served) ==
  LET clean_path == clean_path_of(req.path)
      product_slug == product_slug_of(normalized_path_of(clean_path))
  IN [pc |-> "resolve", req |-> req, served |-> served,
      clean_path |-> clean_path,
      db_path |-> db_path_of(clean_path),
      normalized_path |-> normalized_path_of(clean_path),
      params_map |-> params_map_of(req.params, product_slug),
      product_slug |-> product_slug,
      tenant |-> <<>>, route |-> None, template_name |-> <<>>, data_source |-> Null,
      env |-> [n \in {} |-> ""], answers |-> <<>>, out |-> NotStarted,
      lookups |-> <<>>, steps |-> <<>>]

IdleDispatch == [pc |-> "idle"]

Step(name) == Append(rd.steps, name)

\* state.tenants.resolve(&headers, &tenant).await.map_err(internal)?
ResolveTenant ==
  /\ rd.pc = "resolve"
  /\ LET r == resolve(rd.req.headers, rd.req.tenant) IN
     IF r.some
     THEN /\ rd' = [rd EXCEPT !.pc = "find_route", !.tenant = r.v,
                              !.steps = Step("resolve")]
          /\ UNCHANGED response
     ELSE /\ rd' = [rd EXCEPT !.pc = "done", !.steps = Step("resolve")]
          /\ response' = internal("tenant not found")
  /\ UNCHANGED <<tmpl, interp, ds, env_cache, catalog>>

\* The locals computed between the route lookups and env_for.
WithRoute(route, path, step) ==
  [rd EXCEPT !.pc = "env_for", !.route = route,
             !.lookups = Append(rd.lookups, path),
             !.steps = Step(step),
             !.template_name = template_name_of(rd.req.template, route,
                                                rd.product_slug, rd.clean_path),
             !.data_source = data_source_of(route, rd.product_slug)]

\* state.repo.find_route(&tenant, &db_path).await
FindRoute ==
  /\ rd.pc = "find_route"
  /\ LET route == find_route(rd.tenant, rd.db_path) IN
     IF ~route.some /\ (rd.normalized_path = <<"product">> \/ rd.product_slug.some)
     THEN rd' = [rd EXCEPT !.pc = "fallback", !.route = route,
                           !.lookups = Append(rd.lookups, rd.db_path),
                           !.steps = Step("find_route")]
     ELSE rd' = WithRoute(route, rd.db_path, "find_route")
  /\ UNCHANGED <<tmpl, interp, ds, env_cache, response, catalog>>

\* state.repo.find_route(&tenant, "/product").await
FindFallback ==
  /\ rd.pc = "fallback"
  /\ rd' = WithRoute(find_route(rd.tenant, <<"/", "product">>), <<"/", "product">>,
                     "find_route")
  /\ UNCHANGED <<tmpl, interp, ds, env_cache, response, catalog>>

\* state.tmpl.env_for(&tenant).await.map_err(internal)?
EnvFor ==
  /\ rd.pc = "env_for"
  /\ IF rd.req.fs_ok
     THEN LET r == env_for(env_cache, TemplateTree, rd.tenant) IN
          /\ rd' = [rd EXCEPT !.pc = "from_source", !.env = r.env,
                              !.steps = Step("env_for")]
          /\ env_cache' = r.cache
          /\ UNCHANGED response
     ELSE /\ rd' = [rd EXCEPT !.pc = "done", !.steps = Step("env_for")]
          /\ response' = internal("template load")
          /\ UNCHANGED env_cache
  /\ UNCHANGED <<tmpl, interp, ds, catalog>>

\* Where render_dynamic stands once from_source has come to `out`.
AfterFromSource(out, answers, step) ==
  /\ rd' = [rd EXCEPT !.out = out, !.answers = answers, !.steps = Step(step),
                      !.pc = CASE out.st = "pending" -> "await"
                               [] out.st = "ok" -> "get_template"
                               [] out.st = "err" -> "done"
                               [] out.st = "panic" -> "panicked"]
  /\ response' = IF out.st = "err" THEN internal_err(out.err) ELSE response

\* ContextBuilder::from_source(...), up to its end or its first send().await
FromSource ==
  /\ rd.pc = "from_source"
  /\ AfterFromSource(from_source(rd.tenant, rd.data_source, rd.params_map, <<>>),
                     <<>>, "from_source")
  /\ UNCHANGED <<tmpl, interp, ds, env_cache, catalog>>

\* The upstream answers the request from_source is awaiting; from_source runs
\* on to its end or its next send().await.
UpstreamAnswer ==
  /\ rd.pc = "await"
  /\ \E a \in UpstreamAnswers :
       LET answers == Append(rd.answers, a) IN
       AfterFromSource(from_source(rd.tenant, rd.data_source, rd.params_map, answers),
                       answers, "answer")
  /\ UNCHANGED <<tmpl, interp, ds, env_cache, catalog>>

\* The template engine compiles a source when it is first looked up; the one
\* source of the model that does not compile.
compiles(source) == source # "{% broken"

\* env.get_template(&template_name): TemplateNotFound mapped to 404, any other
\* error (a source that does not compile) to 500
GetTemplate ==
  /\ rd.pc = "get_template"
  /\ IF rd.template_name \notin DOMAIN rd.env
     THEN /\ rd' = [rd EXCEPT !.pc = "done", !.steps = Step("get_template")]
          /\ response' = NotFound("template not found")
     ELSE IF ~compiles(rd.env[rd.template_name])
     THEN /\ rd' = [rd EXCEPT !.pc = "done", !.steps = Step("get_template")]
          /\ response' = internal("syntax error")
     ELSE /\ rd' = [rd EXCEPT !.pc = "render", !.steps = Step("get_template")]
          /\ UNCHANGED response
  /\ UNCHANGED <<tmpl, interp, ds, env_cache, catalog>>

\* tpl.render(ctx).map_err(internal)?; the engine renders or fails.
Render ==
  /\ rd.pc = "render"
  /\ \E ok \in BOOLEAN :
       response' = IF ok THEN Html(rd.env[rd.template_name], rd.out.ctx)
                   ELSE internal("render")
  /\ rd' = [rd EXCEPT !.pc = "done", !.steps = Step("render")]
  /\ UNCHANGED <<tmpl, interp, ds, env_cache, catalog>>

\* The next request arrives once this one is over (its task has returned or
\* aborted).
NextRequest ==
  /\ rd.pc \in {"done", "panicked"}
  /\ rd.served < MaxRequests
  /\ \E req \in Requests : rd' = Entry(req, rd.served + 1)
  /\ response' = NoResponse
  /\ UNCHANGED <<tmpl, interp, ds, env_cache, catalog>>

IdleInterp ==
  [chunks |-> <<>>, params |-> EmptyMap, order |-> <<>>, env |-> [n \in {} |-> <<>>],
   done |-> FALSE, out |-> <<>>]
\* No catalog has been decoded.
IdleCatalog == [items |-> <<>>, decoded |-> <<>>, prepared |-> 0]
IdleData == [source |-> Null, query_params |-> EmptyMap, answers |-> <<>>,
             out |-> NotStarted]
EmptyCache == [t \in {} |-> Null]
NoChange == [kind |-> "none", root |-> <<>>, rel |-> <<>>]
IdleTmpl ==
  [tree |-> TemplateTree, calls |-> <<>>, changes |-> 0, last |-> NoChange,
   basis |-> EmptyCache, built |-> EmptyCache, states |-> EmptyCache]

Init ==
  /\ \E req \in Requests : rd = Entry(req, 1)
  /\ env_cache = EmptyCache
  /\ tmpl = IdleTmpl
  /\ response = NoResponse
  /\ catalog = IdleCatalog
  /\ interp = IdleInterp
  /\ ds = IdleData

\* A step of the handler's own task.
HandlerStep ==
  \/ ResolveTenant
  \/ FindRoute
  \/ FindFallback
  \/ EnvFor
  \/ FromSource
  \/ GetTemplate
  \/ Render

Next == HandlerStep \/ UpstreamAnswer \/ NextRequest

Spec == Init /\ [][Next]_vars

(***************************************************************************)
(* Tenant resolution on its own: the slug of the path and the headers of    *)
(* the request are drawn in InitResolve, the one step is ResolveTenant.     *)
(***************************************************************************)
ResolveSlugs ==
  {Acme, Beta, Ghost, Shared, <<"ACME">>, <<"Acme">>, <<"acme", " ">>,
   <<" ", "acme">>, <<"acme", "/">>, <<"beta", ".", "example", ".", "com">>, <<>>}
ResolveHeaders ==
  {NoHeaders} \cup {[h \in {name} |-> slug] :
                      name \in {"host", "x-tenant"}, slug \in {Acme, Beta, Ghost}}

InitResolve ==
  /\ \E tenant \in ResolveSlugs, headers \in ResolveHeaders :
       rd = Entry([tenant |-> tenant, headers |-> headers, path |-> None,
                   template |-> None, params |-> EmptyMap, fs_ok |-> TRUE], 1)
  /\ env_cache = EmptyCache
  /\ tmpl = IdleTmpl
  /\ response = NoResponse
  /\ catalog = IdleCatalog
  /\ interp = IdleInterp
  /\ ds = IdleData

SpecResolve == InitResolve /\ [][ResolveTenant]_vars

(***************************************************************************)
(* Data resolution on its own: a source and the query parameters are drawn  *)
(* in InitData; DataStart runs from_source to its end or to its first        *)
(* send().await, DataAnswer delivers an upstream's answer and runs it on.    *)
(***************************************************************************)
PayloadKeys == {"site", "page", "items"}
\* Most keys of a payload object drawn in InitData.
MaxPayloadKeys == 2

ChildValues ==
  {Word("plain"),
   ObjOf(<<<<"slug", Word("own")>>>>),
   ObjOf(<<<<"slug", Word("own")>>, <<"title", Word("Own")>>, <<"query", Word("old")>>>>),
   StaticSource(Chair),
   StaticSource(ObjOf(<<<<"items", StaticSource(Num(1))>>>>)),
   StaticSource(ObjOf(<<<<"data", Chair>>, <<"name", Word("wrapper")>>>>)),
   ObjOf(<<<<"provider", Word("static")>>, <<"payload", Num(5)>>, <<"slug", Word("own")>>>>),
   ObjOf(<<<<"provider", Word("graphql")>>, <<"data", Num(7)>>>>),
   HttpSource(ItemsUrl)}

Payloads ==
  {Obj(f) : f \in UNION {[K -> ChildValues] :
                          K \in {S \in SUBSET PayloadKeys : Cardinality(S) <= MaxPayloadKeys}}}
  \cup {Null, Num(1), Bool(TRUE), Word("text"), Arr(<<>>)}

\* The methods an Http source of InitData is configured with.
Methods ==
  {Word("get"), Word("put"), Word("PUT"), Word("Post"), Word("pAtCh"), Word("Delete"),
   Word("head"), Word("HEAD"), Word(" post"), Str(<<>>), Null, Num(5)}

Sources ==
  Payloads
  \cup {StaticSource(p) : p \in Payloads}
  \cup {ObjOf(<<<<"provider", Word("http")>>, <<"url", Str(ItemsUrl)>>,
                 <<"method", m>>>>) : m \in Methods}
  \cup {HttpSource(ItemsUrl),
        ObjOf(<<<<"provider", Word("http")>>, <<"url", Str(ItemsUrl)>>,
                <<"method", Word("post")>>,
                <<"headers", ObjOf(<<<<"Authorization",
                                       Str(<<"Bearer ">> \o EnvMarker("MOBI_API_TOKEN"))>>,
                                     <<"name", Str(<<"item-">> \o Placeholder("id"))>>,
                                     <<"id", Num(1)>>>>)>>>>),
        ObjOf(<<<<"provider", Word("db_query")>>, <<"sql", Word("select 1")>>>>),
        ObjOf(<<<<"provider", Word("mock_file")>>, <<"path", Str(<<"home.json">>)>>>>),
        ObjOf(<<<<"provider", Word("mock_file")>>, <<"path", Str(<<"broken.json">>)>>>>),
        ObjOf(<<<<"provider", Word("mock_file")>>, <<"path", Str(<<"missing.json">>)>>>>),
        ObjOf(<<<<"provider", Word("mock_file")>>,
                <<"path", Str(<<"/", "etc", "/", "passwd.json">>)>>>>),
        ObjOf(<<<<"provider", Word("mock_file")>>,
                <<"path", Str(<<"..", "/", "secret.json">>)>>>>),
        ObjOf(<<<<"provider", Word("http")>>>>),
        ObjOf(<<<<"provider", Word("static")>>>>),
        ObjOf(<<<<"provider", Word("graphql")>>, <<"payload", Chair>>>>),
        ObjOf(<<<<"provider", Num(5)>>>>),
        ObjOf(<<<<"provider", Word("mock_file")>>, <<"path", Num(1)>>>>),
        Arr(<<Word("static"), Chair>>),
        Arr(<<Word("static")>>),
        Arr(<<Word("mock_file"), Str(<<"home.json">>)>>),
        Arr(<<Word("graphql"), Chair>>)}

QueryChoices ==
  {EmptyMap,
   ObjOf(<<<<"id", Word("42")>>>>).v,
   ObjOf(<<<<"id", Num(42)>>>>).v,
   ObjOf(<<<<"q", Word("chair")>>, <<"site", Word("evil")>>>>).v,
   ObjOf(<<<<"q", Word("chair")>>, <<"page", Word("2")>>, <<"items", Word("mine")>>>>).v}


InitData ==
  /\ \E source \in Sources, query_params \in QueryChoices :
       ds = [source |-> source, query_params |-> query_params, answers |-> <<>>,
             out |-> NotStarted]
  /\ interp = IdleInterp
  /\ rd = IdleDispatch
  /\ env_cache = EmptyCache
  /\ tmpl = IdleTmpl
  /\ response = NoResponse
  /\ catalog = IdleCatalog

DataStart ==
  /\ ds.out.st = "start"
  /\ ds' = [ds EXCEPT !.out = from_source(Acme, ds.source, ds.query_params, <<>>)]
  /\ UNCHANGED <<tmpl, interp, rd, env_cache, response, catalog>>

DataAnswer ==
  /\ ds.out.st = "pending"
  /\ \E a \in UpstreamAnswers :
       LET answers == Append(ds.answers, a) IN
       ds' = [ds EXCEPT !.answers = answers,
                        !.out = from_source(Acme, ds.source, ds.query_params, answers)]
  /\ UNCHANGED <<tmpl, interp, rd, env_cache, response, catalog>>

NextData == DataStart \/ DataAnswer

SpecData == InitData /\ [][NextData]_vars

(***************************************************************************)
(* Interpolation on its own: the inputs are drawn in InitInterp, the one    *)
(* action applies render_placeholder_string.                               *)
(***************************************************************************)
RECURSIVE Flatten(_)
Flatten(chunks) ==
  IF chunks = <<>> THEN <<>> ELSE Head(chunks) \o Flatten(Tail(chunks))

ParamKeys == {"a", "b", "c"}
TemplateChunks ==
  {<<"x">>, Placeholder("a"), Placeholder("b"), EnvMarker("N"), EnvOpen \o <<"N">>}
ParamValues ==
  {Str(<<"v">>), Str(Placeholder("b")), Str(EnvMarker("N")), Num(42)}
EnvChoices ==
  {[n \in {} |-> <<>>], [n \in {<<"N">>} |-> <<"secret">>],
   [n \in {<<"N">>} |-> EnvMarker("N")]}

SeqsUpTo(S, n) == UNION {[1..k -> S] : k \in 0..n}
Perms(S) ==
  {p \in [1..Cardinality(S) -> S] : \A i, j \in 1..Cardinality(S) : p[i] = p[j] => i = j}

InitInterp ==
  /\ \E chunks \in SeqsUpTo(TemplateChunks, MaxChunks) \ {<<>>} :
     \E keys \in {K \in SUBSET ParamKeys : Cardinality(K) <= MaxParams} :
     \E params \in [keys -> ParamValues] :
     \E order \in Perms(keys) :
     \E env \in EnvChoices :
       interp = [chunks |-> chunks, params |-> params, order |-> order, env |-> env,
                 done |-> FALSE, out |-> <<>>]
  /\ ds = IdleData
  /\ rd = IdleDispatch
  /\ env_cache = EmptyCache
  /\ tmpl = IdleTmpl
  /\ response = NoResponse
  /\ catalog = IdleCatalog

InterpRender ==
  /\ ~interp.done
  /\ interp' = [interp EXCEPT
       !.done = TRUE,
       !.out = RenderOrdered(Flatten(interp.chunks), interp.params, interp.order,
                             interp.env)]
  /\ UNCHANGED <<tmpl, ds, rd, env_cache, response, catalog>>

NextInterp == InterpRender

SpecInterp == InitInterp /\ [][NextInterp]_vars

(***************************************************************************)
(* The template service on its own: env_for calls of concurrent requests,   *)
(* each one step per await, over a template directory that changes.        *)
(***************************************************************************)
\* Most events in one behaviour, an event being an env_for call entered or a
\* change of the template directory.
MaxTmplEvents == 3

\* The template directory at the start: acme overrides the shared index.html,
\* beta has no directory of its own.
StartTree ==
  (Shared :> <<File(IndexHtml, "shared index", 12, 1),
               File(<<"logo", ".", "png">>, "png", 3, 1)>>)
  @@ (Acme :> <<File(IndexHtml, "acme index", 10, 1)>>)

TmplTenants == {Acme, Beta}
Roots == {Shared, Acme}
NewFile == File(<<"new", ".", "html">>, "new", 3, 1)
RenamedRel == <<"renamed", ".", "html">>

rels(files) == {files[i].rel : i \in DOMAIN files}
RemoveAt(files, i) == SubSeq(files, 1, i - 1) \o SubSeq(files, i + 1, Len(files))

\* One attribute of a file changed, the other two kept.
Touch(file, attr) ==
  CASE attr = "content" -> [file EXCEPT !.content = "edited"]
    [] attr = "len" -> [file EXCEPT !.len = file.len + 1]
    [] attr = "mtime" -> [file EXCEPT !.mtime = file.mtime + 1]

\* Another call may be entered, another change may happen.
MoreEvents == Len(tmpl.calls) + tmpl.changes < MaxTmplEvents

\* What scan_fingerprint and read_templates can see of a root: its included
\* files, in the order of the walk.
RECURSIVE Included(_)
Included(files) ==
  IF files = <<>> THEN <<>>
  ELSE IF should_include(Head(files).rel)
       THEN <<Head(files)>> \o Included(Tail(files))
       ELSE Included(Tail(files))

\* What is kept of the states of one root: version counts the changes of
\* what is included of it and stamps holds the metadata of its states so far
\* (relative path, size and modification time of each file, as
\* fingerprint_for writes them); fresh stays true as long as every state
\* comes with metadata no earlier one had (no state comes back, and none
\* differs from another in the content of a file alone).
Moved(known, stamp) ==
  [version |-> known.version + 1, stamps |-> known.stamps \cup {stamp},
   fresh |-> known.fresh /\ stamp \notin known.stamps]

Noted(known, moved, stamp) == IF moved THEN Moved(known, stamp) ELSE known

\* The tree state of a tenant is what is included of the shared root and of
\* its own: its version, and whether it has been fresh so far.
TreeVersion(tenant_slug) ==
  tmpl.states[Shared].version
  + (IF tenant_slug \in DOMAIN tmpl.states THEN tmpl.states[tenant_slug].version ELSE 0)

TreeFresh(tenant_slug) ==
  /\ tmpl.states[Shared].fresh
  /\ tenant_slug \in DOMAIN tmpl.states => tmpl.states[tenant_slug].fresh

\* The template directory after a change under root, with what the change was.
Changed(tree, kind, root, rel) ==
  [tmpl EXCEPT !.tree = tree, !.changes = tmpl.changes + 1,
               !.last = [kind |-> kind, root |-> root, rel |-> rel],
               !.states[root] =
                 Noted(@, Included(tree[root]) # Included(tmpl.tree[root]),
                       hash_files(tree[root]))]

AddFile ==
  /\ MoreEvents
  /\ \E root \in Roots :
       /\ NewFile.rel \notin rels(tmpl.tree[root])
       /\ tmpl' = Changed([tmpl.tree EXCEPT ![root] = Append(@, NewFile)],
                          "add", root, NewFile.rel)
  /\ UNCHANGED <<interp, ds, rd, env_cache, response, catalog>>

RemoveFile ==
  /\ MoreEvents
  /\ \E root \in Roots : \E i \in DOMAIN tmpl.tree[root] :
       tmpl' = Changed([tmpl.tree EXCEPT ![root] = RemoveAt(@, i)],
                       "remove", root, tmpl.tree[root][i].rel)
  /\ UNCHANGED <<interp, ds, rd, env_cache, response, catalog>>

ModifyFile ==
  /\ MoreEvents
  /\ \E root \in Roots : \E i \in DOMAIN tmpl.tree[root] :
     \E attr \in {"content", "len", "mtime"} :
       /\ Touch(tmpl.tree[root][i], attr) # tmpl.tree[root][i]
       /\ tmpl' = Changed([tmpl.tree EXCEPT ![root][i] = Touch(@, attr)],
                          attr, root, tmpl.tree[root][i].rel)
  /\ UNCHANGED <<interp, ds, rd, env_cache, response, catalog>>

RenameFile ==
  /\ MoreEvents
  /\ \E root \in Roots : \E i \in DOMAIN tmpl.tree[root] :
       /\ RenamedRel \notin rels(tmpl.tree[root])
       /\ tmpl' = Changed([tmpl.tree EXCEPT ![root][i].rel = RenamedRel],
                          "rename", root, tmpl.tree[root][i].rel)
  /\ UNCHANGED <<interp, ds, rd, env_cache, response, catalog>>

\* An env_for call once its fingerprint is computed.  Beside the locals of the
\* code (tenant, fingerprint, env) a call keeps what it has seen and done:
\* started is the number of directory changes before it, scanned the directory
\* its fingerprint was computed over, seen the entry env_cache.get returned
\* and seen_basis the directory that entry's fingerprint was computed over,
\* reads the read_templates runs, wrote whether it has inserted an entry,
\* scan_version the version of the tenant's tree state its scan saw and built
\* the version of the one its environment was read from.
NewCall(tenant_slug) ==
  [pc |-> "get", tenant |-> tenant_slug, started |-> tmpl.changes,
   scan_version |-> TreeVersion(tenant_slug), built |-> TreeVersion(tenant_slug),
   fingerprint |-> scan_fingerprint(tmpl.tree, tenant_slug),
   scanned |-> tmpl.tree, seen |-> None,
   seen_basis |-> None, hit |-> FALSE, env |-> [n \in {} |-> ""],
   reads |-> 0, wrote |-> FALSE]

WithCall(c, call) == [tmpl EXCEPT !.calls[c] = call]

\* A request enters env_for:
\* let fingerprint = self.scan_fingerprint(tenant_slug).await?
ScanFingerprint ==
  /\ MoreEvents
  /\ \E tenant_slug \in TmplTenants :
       tmpl' = [tmpl EXCEPT !.calls = Append(@, NewCall(tenant_slug))]
  /\ UNCHANGED <<interp, ds, rd, env_cache, response, catalog>>

\* self.env_cache.get(tenant_slug).await and the comparison of fingerprints
CacheGet ==
  /\ \E c \in DOMAIN tmpl.calls :
       LET call == tmpl.calls[c]
           present == call.tenant \in DOMAIN env_cache
           seen == IF present THEN Some(env_cache[call.tenant]) ELSE None
           seen_basis == IF present THEN Some(tmpl.basis[call.tenant]) ELSE None
       IN
       /\ call.pc = "get"
       /\ IF cache_hit(env_cache, call.tenant, call.fingerprint)
          THEN tmpl' = WithCall(c, [call EXCEPT
                         !.pc = "done", !.seen = seen, !.seen_basis = seen_basis,
                         !.hit = TRUE, !.env = env_cache[call.tenant].env,
                         !.built = tmpl.built[call.tenant]])
          ELSE tmpl' = WithCall(c, [call EXCEPT
                         !.pc = "read", !.seen = seen, !.seen_basis = seen_basis])
  /\ UNCHANGED <<interp, ds, rd, env_cache, response, catalog>>

\* let templates = self.read_templates(tenant_slug).await?; build_environment
ReadTemplates ==
  /\ \E c \in DOMAIN tmpl.calls :
       LET call == tmpl.calls[c] IN
       /\ call.pc = "read"
       /\ tmpl' = WithCall(c, [call EXCEPT
                    !.pc = "insert",
                    !.env = read_templates(tmpl.tree, call.tenant),
                    !.built = TreeVersion(call.tenant),
                    !.reads = call.reads + 1])
  /\ UNCHANGED <<interp, ds, rd, env_cache, response, catalog>>

\* A rebuild that writes the new templates into the environment the cache
\* already holds: the calls that were given it see them too.
insert_env_in_place(calls, c) ==
  [d \in DOMAIN calls |->
     IF d = c THEN [calls[c] EXCEPT !.pc = "done", !.wrote = TRUE]
     ELSE IF calls[d].pc = "done" /\ calls[d].tenant = calls[c].tenant
          THEN [calls[d] EXCEPT !.env = calls[c].env]
          ELSE calls[d]]

\* let env = Arc::new(env); the entry holds env.clone() and the call returns
\* env: the environment is a new one, those returned before are left alone.
insert_env(calls, c) == [calls EXCEPT ![c] = [@ EXCEPT !.pc = "done", !.wrote = TRUE]]

\* self.env_cache.insert(tenant_slug.to_string(), cached).await; Ok(env)
CacheInsert ==
  /\ \E c \in DOMAIN tmpl.calls :
       LET call == tmpl.calls[c] IN
       /\ call.pc = "insert"
       /\ env_cache' = cache_insert(env_cache, call.tenant,
                                    CachedEnvironment(call.env, call.fingerprint))
       /\ tmpl' = [tmpl EXCEPT
                     !.calls = insert_env(tmpl.calls, c),
                     !.basis = cache_insert(tmpl.basis, call.tenant, call.scanned),
                     !.built = cache_insert(tmpl.built, call.tenant, call.built)]
  /\ UNCHANGED <<interp, ds, rd, response, catalog>>

InitTmpl ==
  /\ tmpl = [IdleTmpl EXCEPT
               !.tree = StartTree,
               !.states = [root \in Roots |->
                             [version |-> 0, stamps |-> {hash_files(StartTree[root])},
                              fresh |-> TRUE]]]
  /\ env_cache = EmptyCache
  /\ interp = IdleInterp
  /\ ds = IdleData
  /\ rd = IdleDispatch
  /\ response = NoResponse
  /\ catalog = IdleCatalog

NextTmpl ==
  \/ ScanFingerprint
  \/ CacheGet
  \/ ReadTemplates
  \/ CacheInsert
  \/ AddFile
  \/ RemoveFile
  \/ ModifyFile
  \/ RenameFile

SpecTmpl == InitTmpl /\ [][NextTmpl]_vars

(***************************************************************************)
(* env_for on a cold cache: a template directory, with or without each of  *)
(* its roots, is drawn in InitRead, ReadFor scans it and reads the         *)
(* templates of a tenant from it, CacheInsert ends the call.                *)
(***************************************************************************)
\* The files a root can hold, in the order the walk of load_templates meets
\* them (the files of a directory before the files of its subdirectories);
\* who is "s" for the shared root and "t" for the tenant's.
FileMenu(who) ==
  <<File(IndexHtml, who \o " index", 7, 1),
    File(<<"a", "\\", "b", ".", "html">>, who \o " a-backslash-b", 15, 1),
    File(<<"logo", ".", "png">>, who \o " logo", 6, 1),
    File(<<".", "draft", ".", "html">>, who \o " draft", 7, 1),
    File(<<"a", "/", "b", ".", "html">>, who \o " a-slash-b", 11, 1),
    File(<<"README">>, who \o " readme", 8, 1)>>

InitRead ==
  /\ \E S, T \in SUBSET (1..6), present \in SUBSET Roots :
       LET shared == FileMenu("s")
           own == FileMenu("t")
           keep(menu, K) ==
             LET F[i \in 0..Len(menu)] ==
                   IF i = 0 THEN <<>>
                   ELSE IF i \in K THEN Append(F[i - 1], menu[i]) ELSE F[i - 1]
             IN F[Len(menu)]
       IN /\ Shared \notin present => S = {}
          /\ Acme \notin present => T = {}
          /\ tmpl = [IdleTmpl EXCEPT
                    !.tree = [root \in present |->
                                IF root = Shared THEN keep(shared, S) ELSE keep(own, T)],
                    !.states = [root \in Roots |->
                                  [version |-> 0, stamps |-> {}, fresh |-> TRUE]]]
  /\ env_cache = EmptyCache
  /\ interp = IdleInterp
  /\ ds = IdleData
  /\ rd = IdleDispatch
  /\ response = NoResponse
  /\ catalog = IdleCatalog

\* self.read_templates(tenant_slug).await of one env_for call
ReadFor ==
  /\ tmpl.calls = <<>>
  /\ \E tenant_slug \in TmplTenants :
       tmpl' = [tmpl EXCEPT !.calls =
                  <<[NewCall(tenant_slug) EXCEPT
                       !.pc = "insert",
                       !.env = read_templates(tmpl.tree, tenant_slug),
                       !.reads = 1]>>]
  /\ UNCHANGED <<interp, ds, rd, env_cache, response, catalog>>

NextRead == ReadFor \/ CacheInsert

SpecRead == InitRead /\ [][NextRead]_vars

(***************************************************************************)
(* Catalog search (catalog-search): the catalog CatalogSearch::new has      *)
(* decoded is drawn in InitCatalog, PrepareCatalog runs prepare_catalog on  *)
(* it.  A text is a sequence of words and spaces.                           *)
(***************************************************************************)
\* Most items of a catalog drawn in InitCatalog.
MaxItems == 2
\* Most runs of prepare_catalog over one catalog.
MaxPrepares == 2

\* str::to_lowercase, word by word; a space is left as it is.
to_lowercase(text) ==
  [i \in DOMAIN text |->
     CASE text[i] = "Sample" -> "sample"
       [] text[i] = "Chair" -> "chair"
       [] text[i] = "CHAIR" -> "chair"
       [] text[i] = "Oak" -> "oak"
       [] text[i] = "Leather;" -> "leather;"
       [] text[i] = "Walnut" -> "walnut"
       [] text[i] = "Brown" -> "brown"
       [] text[i] = "Tall" -> "tall"
       [] text[i] = "XL" -> "xl"
       [] OTHER -> text[i]]

\* push_lower: the trimmed, lower-cased value is pushed unless it is absent or
\* blank.
push_lower(parts, value) ==
  IF value.some /\ trim(value.v) # <<>>
  THEN Append(parts, to_lowercase(trim(value.v)))
  ELSE parts

\* push_lower for each value in turn.
RECURSIVE push_each(_, _)
push_each(parts, values) ==
  IF values = <<>> THEN parts
  ELSE push_each(push_lower(parts, Head(values)), Tail(values))

\* The loop over furniture.variations.
RECURSIVE push_variations(_, _)
push_variations(parts, variations) ==
  IF variations = <<>> THEN parts
  ELSE LET variation == Head(variations) IN
       push_variations(push_each(parts, <<variation.name, variation.quick_description,
                                          variation.quick_specifications,
                                          variation.color, variation.secondary_color>>),
                       Tail(variations))

\* parts.join(sep)
RECURSIVE join(_, _)
join(parts, sep) ==
  IF parts = <<>> THEN <<>>
  ELSE IF Len(parts) = 1 THEN Head(parts)
  ELSE Head(parts) \o sep \o join(Tail(parts), sep)

build_searchable_text(furniture) ==
  join(push_variations(push_each(<<>>, <<furniture.name, furniture.slug,
                                         furniture.description_text,
                                         furniture.quick_description,
                                         furniture.quick_specifications,
                                         furniture.specifications>>),
                       furniture.variations),
       <<" ">>)

\* A prepare_catalog that rebuilds the text of every item.
prepare_catalog_all(items) ==
  [i \in DOMAIN items |->
     [items[i] EXCEPT !.searchable_text = build_searchable_text(items[i])]]

prepare_catalog(items) ==
  [i \in DOMAIN items |->
     IF trim(items[i].searchable_text) = <<>>
     THEN [items[i] EXCEPT !.searchable_text = build_searchable_text(items[i])]
     ELSE items[i]]

\* A variation and an item by their text fields (the other fields play no
\* part in prepare_catalog).
Variation(name, color, description, size) ==
  [name |-> name, color |-> color, secondary_color |-> None,
   description |-> description, quick_description |-> None,
   quick_specifications |-> None, size |-> size]
Furniture(name, quick_specifications, variations, searchable_text) ==
  [name |-> name, slug |-> None, description_text |-> None,
   quick_description |-> None, quick_specifications |-> quick_specifications,
   specifications |-> None, variations |-> variations,
   searchable_text |-> searchable_text]

ItemNames == {Some(<<" ">>), Some(<<"Sample", " ", "Chair">>)}
ItemSpecifications == {None, Some(<<" ", "Leather;", " ", "Walnut", " ">>)}
ItemVariations ==
  {<<>>,
   <<Variation(Some(<<"Walnut">>), Some(<<"Brown">>), None, None)>>,
   <<Variation(None, Some(<<" ">>), Some(<<"Tall">>), Some(<<"XL">>))>>}
ItemTexts == {<<>>, <<" ", " ">>, <<"Oak", " ", "CHAIR">>}
CatalogItems ==
  {Furniture(name, quick_specifications, variations, searchable_text) :
     name \in ItemNames, quick_specifications \in ItemSpecifications,
     variations \in ItemVariations, searchable_text \in ItemTexts}

\* let mut catalog = decode_catalog(bytes)? of CatalogSearch::new
InitCatalog ==
  /\ \E items \in SeqsUpTo(CatalogItems, MaxItems) :
       catalog = [items |-> items, decoded |-> items, prepared |-> 0]
  /\ interp = IdleInterp
  /\ ds = IdleData
  /\ rd = IdleDispatch
  /\ env_cache = EmptyCache
  /\ tmpl = IdleTmpl
  /\ response = NoResponse

\* prepare_catalog(&mut catalog)
PrepareCatalog ==
  /\ catalog.prepared < MaxPrepares
  /\ catalog' = [catalog EXCEPT !.items = prepare_catalog(catalog.items),
                               !.prepared = @ + 1]
  /\ UNCHANGED <<interp, ds, rd, env_cache, tmpl, response>>

SpecCatalog == InitCatalog /\ [][PrepareCatalog]_vars

(***************************************************************************)
(* Claims                                                                  *)
(***************************************************************************)
\* What a chunk of the template stands for when nothing substituted is ever
\* scanned again: the value of a string parameter for {{key}}, the value of the
\* variable (or nothing) for {{env.NAME}}, itself otherwise.
ExpandChunk(c, params, env) ==
  IF \E k \in DOMAIN params : c = Placeholder(k) /\ as_str(params[k])
  THEN params[CHOOSE k \in DOMAIN params : c = Placeholder(k)].v
  ELSE IF Len(c) = 6 /\ StartsWith(c, EnvOpen) THEN EnvVar(env, <<c[4]>>)
  ELSE c

RECURSIVE Verbatim(_, _, _)
Verbatim(chunks, params, env) ==
  IF chunks = <<>> THEN <<>>
  ELSE ExpandChunk(Head(chunks), params, env) \o Verbatim(Tail(chunks), params, env)

\* C2: interpolation performs no recursive expansion: each placeholder of the
\* template is replaced by its value and the inserted value appears verbatim
\* in the output, whatever the iteration order of the params (for templates
\* whose markers are all closed).
C2_NoRecursiveExpansion ==
  (/\ interp.done
   /\ \A i \in DOMAIN interp.chunks : interp.chunks[i] # EnvOpen \o <<"N">>)
  => interp.out = Verbatim(interp.chunks, interp.params, interp.env)

(***************************************************************************)
(* Claims about from_source (checked under SpecData)                       *)
(***************************************************************************)
Returned == ds.out.st = "ok"
\* The log entries of the nested resolutions (all but the top-level one).
NestedEntries == {ds.out.log[i] : i \in 2..Len(ds.out.log)}
FailedNested == {e \in NestedEntries : e.st = "err"}
ResolvedNested == {e \in NestedEntries : e.st = "ok"}

\* C3: after every successful from_source the returned context has an
\* object-typed `site` with both `slug` and `title`.
C3_SiteAlwaysPresent ==
  Returned =>
    /\ has(ds.out.ctx, "site")
    /\ has(ds.out.ctx.v["site"], "slug")
    /\ has(ds.out.ctx.v["site"], "title")

\* C4: a `site` already present in the resolved top-level payload is never
\* overwritten: its slug and title keep their values, only missing ones are
\* filled with the tenant slug, and a `site` that is no object stays as it is
\* (the wholesale assignment is for a payload without `site` only).
C4_SiteNeverOverwritten ==
  (Returned /\ has(ds.out.top, "site")) =>
    LET before == ds.out.top.v["site"]
        after == ds.out.ctx.v["site"]
    IN IF is_object(before)
       THEN /\ is_object(after)
            /\ \A f \in {"slug", "title"} :
                 /\ f \in DOMAIN after.v
                 /\ after.v[f] = IF f \in DOMAIN before.v THEN before.v[f] ELSE Str(Acme)
       ELSE after = before

\* C5 as claimed: a top-level failure fails the whole resolution and returns no
\* context; a nested failure is swallowed and the key keeps its original
\* unresolved source value in the returned context.
C5_NestedKeepsOriginalSource ==
  /\ (ds.out.st \notin {"start", "pending"}
      /\ process_source(ds.source, ds.query_params, ds.answers, 0).st = "err")
       => (ds.out.st = "err" /\ ds.out.ctx = Null)
  /\ Returned => \A e \in FailedNested : ds.out.ctx.v[e.key] = ds.out.top.v[e.key]

\* What the steps around the nested expansion do to the value of a key: the
\* site step before it, the page.query step after it.
WithSiteFilled(key, value) ==
  IF key = "site"
  THEN Obj(or_insert(or_insert(value.v, "slug", Str(Acme)), "title", Str(Acme)))
  ELSE value
WithPageQuery(key, value) ==
  IF key = "page" /\ "q" \in DOMAIN ds.query_params
  THEN Obj(insert(value.v, "query", ds.query_params["q"]))
  ELSE value
\* A resolved value, or its `data` when it is an object that has one.
DataOf(val) == IF is_object(val) /\ "data" \in DOMAIN val.v THEN val.v["data"] ELSE val

\* C5 (amended): a top-level failure fails the whole resolution with that error
\* and returns no context; a nested failure is swallowed: the resolution
\* succeeds, the nested expansion leaves the key's value as it found it (the
\* source value, with slug/title filled in by the site step when the key is
\* `site`), the returned context holds that value (with `query` set by the page
\* step when the key is `page` and q is given), and every other nested key
\* holds what its own resolution returned.
C5_NestedFailureSwallowed ==
  /\ (ds.out.st \notin {"start", "pending"}
      /\ process_source(ds.source, ds.query_params, ds.answers, 0).st = "err")
       => /\ ds.out.st = "err" /\ ds.out.ctx = Null
          /\ ds.out.err = process_source(ds.source, ds.query_params, ds.answers, 0).err
  /\ (ds.out.st \notin {"start", "pending"} /\ \E e \in NestedEntries : e.st = "err")
       => Returned
  /\ Returned =>
       /\ \A e \in FailedNested :
            /\ e.source = WithSiteFilled(e.key, ds.out.top.v[e.key])
            /\ ds.out.expanded.v[e.key] = e.source
            /\ ds.out.ctx.v[e.key] = WithPageQuery(e.key, e.source)
       /\ \A e \in ResolvedNested :
            /\ ds.out.expanded.v[e.key] = DataOf(e.val)
            /\ (e.source.v["provider"] = Word("static") /\ has(e.source, "payload"))
                 => e.val = e.source.v["payload"]

\* A nested resolution failed and was swallowed while another nested key was
\* resolved.
C5_Witness ==
  /\ Returned
  /\ FailedNested # {}
  /\ ResolvedNested # {}
  /\ \E e \in FailedNested : ds.out.ctx.v[e.key] = ds.out.top.v[e.key]

\* C6: nested expansion resolves exactly one more level: process_source is
\* called once for the top-level source and once for each direct child that is
\* an object with a `provider` key, and for nothing else; a resolved child is
\* stored as it came back (or its `data`), so a source-shaped object inside it
\* stays unresolved; the other children are left unchanged.
C6_OneLevelOnly ==
  Returned =>
    /\ \A k \in DOMAIN ds.out.merged.v :
         Cardinality({i \in 2..Len(ds.out.log) : ds.out.log[i].key = k})
           = IF has(ds.out.merged.v[k], "provider") THEN 1 ELSE 0
    /\ \A e \in NestedEntries :
         /\ e.key \in DOMAIN ds.out.merged.v
         /\ e.source = ds.out.merged.v[e.key]
    /\ \A e \in ResolvedNested :
         /\ ds.out.expanded.v[e.key] = DataOf(e.val)
         /\ e.key # "page" => ds.out.ctx.v[e.key] = DataOf(e.val)
    /\ DOMAIN ds.out.expanded.v = DOMAIN ds.out.merged.v
    /\ \A k \in DOMAIN ds.out.merged.v :
         ~has(ds.out.merged.v[k], "provider") =>
           ds.out.expanded.v[k] = ds.out.merged.v[k]

\* A child was resolved to an object that holds a source-shaped object, and
\* that grandchild is in the returned context as it was.
C6_Witness ==
  /\ Returned
  /\ \E e \in ResolvedNested :
       /\ has(ds.out.ctx.v[e.key], "items")
       /\ has(ds.out.ctx.v[e.key].v["items"], "provider")
       /\ ds.out.ctx.v[e.key].v["items"] = StaticSource(Num(1))
  /\ \E k \in DOMAIN ds.out.merged.v : ~has(ds.out.merged.v[k], "provider")

(***************************************************************************)
(* Claims about the dispatcher (checked under Spec)                        *)
(***************************************************************************)
Terminal == rd.pc \in {"done", "panicked"}
Reached(step) == \E i \in DOMAIN rd.steps : rd.steps[i] = step
\* The data source of the request is an Http source, resolved at the top level.
TopLevelHttp ==
  /\ has(rd.data_source, "provider")
  /\ rd.data_source.v["provider"] = Word("http")
  /\ rd.answers # <<>>
BadStatus(a) == a.k = "response" /\ ~(a.status >= 200 /\ a.status <= 299)
BadJson(a) ==
  a.k = "response" /\ a.status >= 200 /\ a.status <= 299 /\ a.body = <<"oops">>

\* C1: a request for a tenant slug the repository does not know ends in the
\* tenant-not-found state, reported as 404 and so told apart from a 5xx.
C1_TenantNotFoundIs404 ==
  (rd.pc = "done" /\ rd.req.tenant \notin {Acme, Beta, Shared})
    => (response.status = 404 /\ response.body = "tenant not found")

\* C7: with a product slug detected and no route resolved, a product-detail
\* upstream that answers non-2xx or with a body that is not JSON is fatal: the
\* request ends as a failure (5xx) and no template is looked up or rendered.
C7_ProductUpstreamFailureIsFatal ==
  (/\ rd.product_slug.some
   /\ ~rd.route.some
   /\ rd.answers # <<>>
   /\ (BadStatus(rd.answers[1]) \/ BadJson(rd.answers[1])))
    => /\ rd.pc = "done"
       /\ response.status = 500
       /\ ~Reached("get_template")
       /\ ~Reached("render")

\* C8: the data source handed to data resolution is the route's when a route
\* was resolved, else for a detected product slug the synthesized Http source
\* of the product-detail endpoint, resolved as the top-level source, else an
\* empty Static source.
C8_DataSourceChoice ==
  rd.pc \in {"env_for", "from_source", "await", "get_template", "render"} =>
    rd.data_source =
      IF rd.route.some THEN rd.route.v.data_source
      ELSE IF rd.product_slug.some THEN ProductSource
      ELSE StaticSource(Obj(EmptyMap))

\* C9: when the upstream of a top-level Http source answers non-2xx, data
\* resolution fails with an error carrying the status and the body, template
\* lookup and render are never reached, and the request ends as a failure
\* (5xx); a 2xx answer whose body is not JSON fails the resolution as well.
C9_UpstreamErrorIsFatal ==
  TopLevelHttp =>
    LET a == rd.answers[1] IN
    /\ BadStatus(a) =>
         /\ rd.out.st = "err"
         /\ rd.out.err = [kind |-> "http_status", status |-> a.status, body |-> a.body]
         /\ response.err = rd.out.err
    /\ (BadStatus(a) \/ BadJson(a)) =>
         /\ rd.out.st = "err"
         /\ rd.pc = "done"
         /\ response.status = 500
         /\ ~Reached("get_template")
         /\ ~Reached("render")

\* The scenario of the specification: status 500 with body "oops".
C9_Witness ==
  /\ TopLevelHttp
  /\ rd.answers = <<Response(500, <<"oops">>)>>
  /\ rd.pc = "done"
  /\ response.status = 500
  /\ response.err.status = 500
  /\ response.err.body = <<"oops">>

\* C10: a request that resolves an Http source reaches a terminal state even
\* when the upstream never answers: while it awaits the upstream, a step of its
\* own task (the timeout of the call) is enabled, so that it does not depend
\* on the upstream to go on.
C10_AwaitingRequestCanGoOn == (rd.pc = "await") => ENABLED HandlerStep

(***************************************************************************)
(* Claims about the template service (checked under SpecTmpl)              *)
(***************************************************************************)
\* The included files of a root of the directory, as a set.
IncludedFiles(tree, root) ==
  IF root \notin DOMAIN tree THEN {}
  ELSE {tree[root][i] : i \in {j \in DOMAIN tree[root] : should_include(tree[root][j].rel)}}

\* Two directories differ in an included file of the shared root or of the
\* tenant's root: one was added, removed, modified or renamed.
IncludedDiffer(old, new, tenant_slug) ==
  \/ IncludedFiles(old, Shared) # IncludedFiles(new, Shared)
  \/ IncludedFiles(old, tenant_slug) # IncludedFiles(new, tenant_slug)

EnvCalls == {tmpl.calls[c] : c \in DOMAIN tmpl.calls}

\* C11: after an add, remove, modify or rename of an included file under the
\* shared root or the tenant's root, the next env_for of the tenant (no change
\* while it runs) computes a fingerprint that differs from the cached one,
\* rebuilds, and returns the templates of the merged directory; with the
\* tenant's index.html gone, its index.html is the shared one.
C11_ChangeIsSeen ==
  \A call \in EnvCalls :
    (/\ call.pc = "done"
     /\ call.started = tmpl.changes
     /\ call.seen.some
     /\ IncludedDiffer(call.seen_basis.v, tmpl.tree, call.tenant))
    => /\ call.fingerprint # call.seen.v.fingerprint
       /\ ~call.hit
       /\ call.reads = 1
       /\ call.env = read_templates(tmpl.tree, call.tenant)
       /\ \A f \in IncludedFiles(tmpl.tree, Shared) :
            (f.rel = IndexHtml /\ IndexHtml \notin rels(tmpl.tree[Acme])
             /\ call.tenant = Acme)
            => (IndexHtml \in DOMAIN call.env /\ call.env[IndexHtml] = f.content)

\* C12: an env_for call that finds an entry of its tenant with the fingerprint
\* it has just computed returns that entry's environment and leaves the cache
\* as it is, without reading templates or inserting; it goes on to read,
\* build and insert only when the entry is absent or its fingerprint differs,
\* and nothing else writes the cache.
C12_HitReusesEntry ==
  [][/\ \A c \in DOMAIN tmpl.calls :
          LET call == tmpl.calls[c]
              after == tmpl'.calls[c]
              same == /\ call.tenant \in DOMAIN env_cache
                      /\ env_cache[call.tenant].fingerprint = call.fingerprint
          IN /\ (call.pc = "get" /\ after.pc # "get") =>
                  IF same
                  THEN /\ after.pc = "done"
                       /\ after.env = env_cache[call.tenant].env
                       /\ env_cache' = env_cache
                       /\ after.reads = 0
                       /\ ~after.wrote
                  ELSE after.pc = "read" /\ env_cache' = env_cache
             /\ (after.reads > call.reads \/ (after.wrote /\ ~call.wrote)) =>
                  /\ ~call.hit
                  /\ ~(call.seen.some /\ call.seen.v.fingerprint = call.fingerprint)
     /\ env_cache' # env_cache =>
          \E c \in DOMAIN tmpl.calls :
            /\ tmpl.calls[c].pc = "insert"
            /\ tmpl'.calls[c].pc = "done"
            /\ env_cache' = cache_insert(env_cache, tmpl.calls[c].tenant,
                              CachedEnvironment(tmpl.calls[c].env,
                                                tmpl.calls[c].fingerprint))
    ]_vars

\* A call has hit the cache and returned, another has missed and inserted.
C12_Witness ==
  /\ \E call \in EnvCalls :
       call.pc = "done" /\ call.hit /\ call.reads = 0 /\ ~call.wrote /\ call.seen.some
  /\ \E call \in EnvCalls : call.pc = "done" /\ ~call.hit /\ call.wrote

\* C13: computing the fingerprint twice over an unchanged directory gives the
\* same value, and a change of an included file's content, size or
\* modification time, each on its own, gives a different one.
C13_FingerprintSensitive ==
  \A c1, c2 \in EnvCalls :
    c1.tenant = c2.tenant =>
      /\ c1.scanned = c2.scanned => c1.fingerprint = c2.fingerprint
      /\ (/\ tmpl.last.kind \in {"content", "len", "mtime"}
          /\ c1.started < c2.started
          /\ IncludedDiffer(c1.scanned, c2.scanned, c1.tenant))
         => c1.fingerprint # c2.fingerprint

\* The calls of a tenant, when they are two or more, have all missed the cache
\* and returned, and the directory has not changed since the first of them.
AllMissed(tenant_slug) ==
  LET mine == {c \in DOMAIN tmpl.calls : tmpl.calls[c].tenant = tenant_slug} IN
  /\ Cardinality(mine) >= 2
  /\ \A c \in mine :
       /\ tmpl.calls[c].pc = "done"
       /\ ~tmpl.calls[c].hit
       /\ tmpl.calls[c].started = tmpl.changes

C14_RaceState ==
  \A tenant_slug \in TmplTenants :
    AllMissed(tenant_slug) =>
      /\ \A call \in EnvCalls :
           call.tenant = tenant_slug =>
             /\ call.wrote
             /\ call.env = read_templates(tmpl.tree, tenant_slug)
      /\ tenant_slug \in DOMAIN env_cache
      /\ env_cache[tenant_slug].fingerprint = scan_fingerprint(tmpl.tree, tenant_slug)
      /\ env_cache[tenant_slug].env = read_templates(tmpl.tree, tenant_slug)

\* C14: env_for calls of one tenant that all miss the cache over an unchanged
\* directory all return, with the same templates, and the cache then holds one
\* entry of the tenant, with the directory's fingerprint; a call never changes
\* or removes the entry of another tenant.
C14_ConcurrentMissesAgree ==
  [][/\ C14_RaceState'
     /\ \A u \in DOMAIN env_cache :
          /\ u \in DOMAIN env_cache'
          /\ env_cache'[u] # env_cache[u] =>
               \E c \in DOMAIN tmpl.calls :
                 /\ tmpl.calls[c].tenant = u
                 /\ tmpl.calls[c].pc = "insert"
                 /\ tmpl'.calls[c].pc = "done"
    ]_vars

\* Two calls of acme have both missed and both inserted, with beta's entry
\* in the cache.
C14_Witness ==
  /\ AllMissed(Acme)
  /\ Beta \in DOMAIN env_cache
  /\ \A call \in EnvCalls : call.pc = "done"

(***************************************************************************)
(* Claims about the dispatcher's steps (checked under Spec)                *)
(***************************************************************************)
\* The request as the client sent it: its path (the default "/" when there is
\* none), the path without its leading slashes, the product slug in it.
ReqPath == IF rd.req.path.some THEN rd.req.path.v ELSE <<"/">>
Trimmed == trim_start_matches(ReqPath, "/")
HasProductSlug == Len(Trimmed) >= 3 /\ Trimmed[1] = "products" /\ Trimmed[2] = "/"
ReqSlug == SubSeq(Trimmed, 3, Len(Trimmed))
Count(step) == Cardinality({i \in DOMAIN rd.steps : rd.steps[i] = step})
LastStep == rd.steps[Len(rd.steps)]
IsError == response.status \notin {0, 200}

\* The order of the dispatcher's steps: what may come right after what.
Follows(a, b) ==
  \/ a = "resolve" /\ b = "find_route"
  \/ a = "find_route" /\ b \in {"find_route", "env_for"}
  \/ a = "env_for" /\ b = "from_source"
  \/ a \in {"from_source", "answer"} /\ b \in {"answer", "get_template"}
  \/ a = "get_template" /\ b = "render"

\* C15: the steps of a request run in the order tenant resolution, route
\* lookup (and at most one fallback lookup), environment, data resolution,
\* template lookup, render; a failure of a step ends the request with no later
\* step; for an unknown tenant there is no route lookup, no template load and
\* no outbound call; rendered text is returned only when every step succeeded.
C15_StepsInOrder ==
  rd.steps # <<>> =>
    /\ rd.steps[1] = "resolve"
    /\ \A i \in 1..(Len(rd.steps) - 1) : Follows(rd.steps[i], rd.steps[i + 1])
    /\ Count("find_route") <= 2
    /\ IsError => rd.pc = "done"
    /\ rd.req.tenant \notin {Acme, Beta, Shared} =>
         /\ rd.steps = <<"resolve">> /\ rd.pc = "done" /\ IsError
         /\ rd.lookups = <<>> /\ rd.env = [n \in {} |-> ""] /\ rd.out.calls = <<>>
         /\ rd.req.tenant \notin DOMAIN env_cache \/ rd.served > 1
    /\ (~rd.req.fs_ok /\ Reached("env_for")) =>
         (LastStep = "env_for" /\ rd.pc = "done" /\ IsError /\ rd.out.calls = <<>>)
    /\ rd.out.st = "err" =>
         (LastStep \in {"from_source", "answer"} /\ rd.pc = "done" /\ IsError)
    /\ (Reached("get_template")
        /\ (rd.template_name \notin DOMAIN rd.env \/ ~compiles(rd.env[rd.template_name])))
         => (LastStep = "get_template" /\ rd.pc = "done" /\ IsError)
    /\ response.status = 200 =>
         /\ rd.pc = "done" /\ LastStep = "render"
         /\ \A step \in {"resolve", "find_route", "env_for", "from_source",
                         "get_template", "render"} : Reached(step)
         /\ rd.req.tenant \in {Acme, Beta, Shared} /\ rd.req.fs_ok /\ rd.out.st = "ok"
         /\ rd.template_name \in DOMAIN rd.env
         /\ response.ctx = rd.out.ctx

\* A request of an unknown tenant has ended after tenant resolution alone.
C15_Witness ==
  /\ rd.req.tenant = Ghost
  /\ rd.pc = "done"
  /\ rd.steps = <<"resolve">>
  /\ response.status = 500
  /\ rd.req.path = Some(<<"products", "/", "xyz">>)

\* C16: a request ends as template-not-found (404) exactly when tenant
\* resolution, route lookup, environment and data resolution succeeded and the
\* chosen template name is not in the tenant's environment; every other
\* failure, a render failure and a data failure of a request whose template is
\* missing too included, ends as a failure that is not a 404.
C16_NotFoundOnlyOnLookupMiss ==
  rd.pc = "done" =>
    LET miss == /\ rd.req.tenant \in {Acme, Beta, Shared}
                /\ rd.req.fs_ok
                /\ rd.out.st = "ok"
                /\ rd.template_name \notin DOMAIN read_templates(TemplateTree, rd.tenant)
    IN /\ response.status = 404 <=> miss
       /\ response.status = 404 => LastStep = "get_template"
       /\ (response.status # 200 /\ ~miss) => response.status = 500

\* A request whose steps all succeeded up to the lookup of a template that
\* its tenant's environment does not have.
C16_Witness ==
  /\ rd.pc = "done"
  /\ response.status = 404
  /\ rd.out.st = "ok"
  /\ rd.out.calls # <<>>
  /\ rd.template_name \notin DOMAIN rd.env

\* C17: the first route lookup uses the request path with a leading slash
\* ensured; a second one, of /product, is made only when the first found
\* nothing and the slash-trimmed path is `product` or products/<nonempty-slug>,
\* and at most once: two lookups at most, one when the first finds a route or
\* the path has neither form.
C17_RouteLookups ==
  (Reached("find_route") /\ rd.pc \notin {"find_route", "fallback"}) =>
    LET first == IF ReqPath # <<>> /\ Head(ReqPath) = "/" THEN ReqPath
                 ELSE <<"/">> \o ReqPath
        found == \E i \in DOMAIN RepoConfig.routes[IF rd.tenant \in DOMAIN RepoConfig.routes
                                                   THEN rd.tenant ELSE Shared] :
                   RepoConfig.routes[IF rd.tenant \in DOMAIN RepoConfig.routes
                                     THEN rd.tenant ELSE Shared][i].path = first
        form == Trimmed = <<"product">> \/ HasProductSlug
    IN /\ Len(rd.lookups) \in {1, 2}
       /\ Len(rd.lookups) = Count("find_route")
       /\ rd.lookups[1] = first
       /\ Len(rd.lookups) = 2 <=> (~found /\ form)
       /\ Len(rd.lookups) = 2 => rd.lookups[2] = <<"/", "product">>

\* The product path of a tenant without a route for it: two lookups, the
\* second one finds /product.
C17_Witness ==
  /\ rd.pc = "env_for"
  /\ rd.req.path = Some(<<"products", "/", "xyz">>)
  /\ rd.lookups = <<<<"/", "products", "/", "xyz">>, <<"/", "product">>>>
  /\ rd.route.some

\* The name inferred from a path p by the rule of the claim.
InferredFrom(p) ==
  IF p = <<>> \/ p[Len(p)] = "/" THEN <<"index", ".", "html">>
  ELSE IF \E i \in DOMAIN p : p[i] = "." THEN p
  ELSE p \o <<".", "html">>

ChosenTemplate(inferred) ==
  IF rd.req.template.some THEN rd.req.template.v
  ELSE IF rd.route.some THEN rd.route.v.template_name
  ELSE IF HasProductSlug THEN <<"pages", "/", "product", ".", "html">>
  ELSE inferred

RouteSettled ==
  rd.pc \in {"env_for", "from_source", "await", "get_template", "render", "done",
             "panicked"} /\ Reached("find_route")

\* C18 as claimed: the template name is the first available of the override,
\* the route's template name, pages/product.html for a product slug, and the
\* name inferred from the path: index.html for an empty or trailing-slash path,
\* the path verbatim when it has a dot, the path with .html appended otherwise.
C18_TemplateNameFromPath ==
  RouteSettled => rd.template_name = ChosenTemplate(InferredFrom(ReqPath))

\* C18 (amended): the same priority, the name being inferred from the path
\* with the whitespace around it and then its leading slashes removed.
C18_TemplateNameFromTrimmedPath ==
  RouteSettled =>
    rd.template_name =
      ChosenTemplate(InferredFrom(trim_start_matches(trim(ReqPath), "/")))

\* A path with a leading slash and a dot, no override, no route: the name is
\* the path without the slash.
C18_Witness ==
  /\ RouteSettled
  /\ rd.req.path = Some(<<"/", "robots", ".", "txt">>)
  /\ ~rd.req.template.some
  /\ ~rd.route.some
  /\ rd.template_name = <<"robots", ".", "txt">>

\* C19: for a path products/<nonempty-slug> the query parameters handed to
\* data resolution have slug, product_slug and product_id equal to the slug,
\* route or no route, whatever the client sent for them; without a product
\* slug they are the request's query parameters.
C19_SlugInjected ==
  Reached("from_source") =>
    /\ rd.params_map =
         IF HasProductSlug
         THEN [k \in DOMAIN rd.req.params \cup {"slug", "product_slug", "product_id"} |->
                 IF k \in {"slug", "product_slug", "product_id"} THEN Str(ReqSlug)
                 ELSE rd.req.params[k]]
         ELSE rd.req.params
    /\ (HasProductSlug /\ ~rd.route.some) =>
         /\ rd.out.calls # <<>>
         /\ rd.out.calls[1].url =
              <<"https://api.mobicms.com.br/api/furnitures/">> \o ReqSlug

\* The client sent its own slug and product_id with a product path; the
\* product-detail call is made for the slug of the path.
C19_Witness ==
  /\ Reached("from_source")
  /\ rd.req.path = Some(<<"products", "/", "xyz">>)
  /\ "product_id" \in DOMAIN rd.req.params
  /\ rd.req.params["product_id"] = Word("evil")
  /\ ~rd.route.some
  /\ rd.out.calls[1].url = <<"https://api.mobicms.com.br/api/furnitures/", "xyz">>
  /\ rd.params_map["q"] = Word("chair")

(***************************************************************************)
(* The query-parameter merge of from_source (checked under SpecData)       *)
(***************************************************************************)
\* C20: the merge of the query parameters never overwrites: every key of the
\* context after the site step and the nested expansion keeps its value when a
\* query parameter has its name (apart from `query` being set in an object
\* `page` by the page step that follows), and every query parameter whose
\* name is absent is added with its value.
C20_MergeNeverOverwrites ==
  Returned =>
    LET before == ds.out.expanded.v
        after == ds.out.ctx.v
    IN /\ DOMAIN after = DOMAIN before \cup DOMAIN ds.query_params
       /\ \A k \in DOMAIN before :
            after[k] = IF is_object(before[k]) THEN WithPageQuery(k, before[k])
                       ELSE before[k]
       /\ \A k \in DOMAIN ds.query_params \ DOMAIN before : after[k] = ds.query_params[k]

\* Query parameters named like keys of the context (site, and a key whose
\* nested source was resolved) were given, and one that is added.
C20_Witness ==
  /\ Returned
  /\ "site" \in DOMAIN ds.query_params
  /\ is_object(ds.out.ctx.v["site"])
  /\ ds.out.ctx.v["q"] = ds.query_params["q"]
  /\ ResolvedNested # {}

(***************************************************************************)
(* The page step of from_source (checked under SpecData)                   *)
(***************************************************************************)
\* The `page` of the context before the page step: the one the nested
\* expansion left, else the query parameter of that name, else none.
PageBefore ==
  IF "page" \in DOMAIN ds.out.expanded.v THEN Some(ds.out.expanded.v["page"])
  ELSE IF "page" \in DOMAIN ds.query_params THEN Some(ds.query_params["page"])
  ELSE None

PageAfter ==
  IF "page" \in DOMAIN ds.out.ctx.v THEN Some(ds.out.ctx.v["page"]) ELSE None

\* C21: after a successful from_source, when the query parameters hold `q` and
\* `page` is an object, page.query is the value of q and every other field of
\* page is as it was; when q or page is absent, or page is not an object, page
\* is what the nested expansion and the merge of the query parameters left.
C21_PageQuery ==
  Returned =>
    IF "q" \in DOMAIN ds.query_params /\ PageBefore.some /\ is_object(PageBefore.v)
    THEN LET before == PageBefore.v.v
             after == PageAfter.v
         IN /\ PageAfter.some
            /\ is_object(after)
            /\ DOMAIN after.v = DOMAIN before \cup {"query"}
            /\ after.v["query"] = ds.query_params["q"]
            /\ \A k \in DOMAIN before \ {"query"} : after.v[k] = before[k]
    ELSE PageAfter = PageBefore

\* An object page with an earlier query and other fields met a q.
C21_Witness ==
  /\ Returned
  /\ "q" \in DOMAIN ds.query_params
  /\ PageBefore.some
  /\ is_object(PageBefore.v)
  /\ "query" \in DOMAIN PageBefore.v.v
  /\ PageBefore.v.v["query"] # ds.query_params["q"]
  /\ "title" \in DOMAIN PageAfter.v.v

(***************************************************************************)
(* The parse of a source in process_source (checked under SpecData)        *)
(***************************************************************************)
\* The process_source calls of the from_source call, the top-level one and
\* the nested ones.
Resolutions == {ds.out.log[i] : i \in DOMAIN ds.out.log}

KnownProviders == {<<"static">>, <<"db_query">>, <<"http">>, <<"mock_file">>}

\* An object with a known provider has the fields its variant requires, of
\* the required type.
FieldsFit(s) ==
  LET p == s.v["provider"].v
      string(k) == k \in DOMAIN s.v /\ s.v[k].t = "str"
      optional_string(k) == k \notin DOMAIN s.v \/ s.v[k].t \in {"null", "str"}
  IN CASE p = <<"static">> -> "payload" \in DOMAIN s.v
       [] p = <<"db_query">> -> string("sql")
       [] p = <<"http">> -> string("url") /\ optional_string("method")
       [] p = <<"mock_file">> -> string("path")

\* The sources the claim lists: no `provider` key, an unknown provider, a known
\* provider with a required field missing or ill-typed, a non-object value.
NotAConfig(s) ==
  \/ s.t # "obj"
  \/ "provider" \notin DOMAIN s.v
  \/ s.v["provider"].t # "str"
  \/ s.v["provider"].v \notin KnownProviders
  \/ ~FieldsFit(s)

\* C22: process_source returns the whole source, unchanged, for every source
\* that has no `provider` key, an unknown provider, a known provider with a
\* required field missing or ill-typed, or that is not an object, and never
\* fails on one; for an object that parses as Static it returns the payload.
C22_UnparsedIsWholeStatic ==
  \A e \in Resolutions :
    /\ NotAConfig(e.source) => (e.st = "ok" /\ e.val = e.source)
    /\ (~NotAConfig(e.source) /\ e.source.v["provider"].v = <<"static">>)
         => (e.st = "ok" /\ e.val = e.source.v["payload"])

(***************************************************************************)
(* The outbound request of an Http source (checked under SpecData)         *)
(***************************************************************************)
\* The sources of the log that parse as Http, in the order of their
\* resolution; the outbound requests are issued in the same order.
RECURSIVE HttpSourcesOf(_)
HttpSourcesOf(log) ==
  IF log = <<>> THEN <<>>
  ELSE IF ~NotAConfig(Head(log).source) /\ Head(log).source.v["provider"].v = <<"http">>
       THEN <<Head(log).source>> \o HttpSourcesOf(Tail(log))
       ELSE HttpSourcesOf(Tail(log))

Interpolate(text) == render_placeholder_string(text, ds.query_params, ProcessEnv)

\* C23: the request of an Http source goes to the interpolated url and carries
\* each string-valued header of the config with its value interpolated;
\* headers that are not strings are not sent, and a query parameter that is
\* not a string leaves its placeholder as it is.  The url
\* https://api.example.com/items/{{id}} with id = 42 is called as
\* https://api.example.com/items/42.
C23_HttpRequestInterpolated ==
  LET sources == HttpSourcesOf(ds.out.log)
      calls == ds.out.calls
  IN /\ Len(calls) = Len(sources)
     /\ \A i \in DOMAIN calls :
          LET cfg == sources[i].v
              sent == IF "headers" \in DOMAIN cfg /\ is_object(cfg["headers"])
                      THEN {h \in DOMAIN cfg["headers"].v : cfg["headers"].v[h].t = "str"}
                      ELSE {}
          IN /\ calls[i].url = Interpolate(cfg["url"].v)
             /\ DOMAIN calls[i].headers = sent
             /\ \A h \in sent : calls[i].headers[h] = Interpolate(cfg["headers"].v[h].v)
             /\ (cfg["url"].v = ItemsUrl /\ "id" \in DOMAIN ds.query_params) =>
                  calls[i].url =
                    IF ds.query_params["id"] = Word("42")
                    THEN <<"https://api.example.com/items/", "42">>
                    ELSE IF ds.query_params["id"].t # "str" THEN ItemsUrl
                    ELSE calls[i].url

\* The example request was sent, with an interpolated header and without the
\* header that is not a string.
C23_Witness ==
  \E i \in DOMAIN ds.out.calls :
    LET req == ds.out.calls[i] IN
    /\ req.url = <<"https://api.example.com/items/", "42">>
    /\ DOMAIN req.headers = {"Authorization", "name"}
    /\ req.headers["Authorization"] = <<"Bearer ", "tok">>
    /\ req.headers["name"] = <<"item-", "42">>
    /\ req.method = <<"POST">>

(***************************************************************************)
(* The second pass of the interpolator (checked under SpecInterp)          *)
(***************************************************************************)
\* A chunk that is a whole marker {{env.NAME}}, one that opens a marker and
\* does not close it, one that holds a "}}".
IsMarker(c) == Len(c) = 6 /\ StartsWith(c, EnvOpen) /\ Drop(c, 4) = Close
OpensMarker(c) == Len(c) = 4 /\ StartsWith(c, EnvOpen)
HasClose(c) == Find(c, Close) # 0

\* What the second pass makes of a text given as its chunks, read off the
\* chunks from left to right: a whole marker gives the value of its variable
\* (nothing when unset), an opened marker runs on to the first "}}" of a later
\* chunk (its NAME, the text between, is no variable that is set) and without
\* one stays as it is, with everything after it; other text stays.
RECURSIVE SecondPass(_, _)
SecondPass(chunks, env) ==
  IF chunks = <<>> THEN <<>>
  ELSE LET c == Head(chunks)
           closing == {i \in 2..Len(chunks) : HasClose(chunks[i])}
       IN IF IsMarker(c) THEN EnvVar(env, <<c[4]>>) \o SecondPass(Tail(chunks), env)
          ELSE IF OpensMarker(c) /\ closing = {} THEN Flatten(chunks)
          ELSE IF OpensMarker(c)
          THEN LET i == CHOOSE k \in closing : \A m \in closing : k <= m
               IN SecondPass(SubSeq(chunks, i + 1, Len(chunks)), env)
          ELSE c \o SecondPass(Tail(chunks), env)

\* C24: in the second pass every {{env.NAME}} marker, from left to right, is
\* replaced by the value of the variable NAME, or by nothing when it is unset;
\* the inserted value is not scanned again; the first {{env. without a closing
\* }} is emitted as it is with all the text after it; the text outside the
\* markers is kept in order.  (Stated for a first pass that has nothing to
\* replace: no query parameters.)
C24_EnvPass ==
  (interp.done /\ DOMAIN interp.params = {}) =>
    interp.out = SecondPass(interp.chunks, interp.env)

\* A marker was replaced by a value that itself holds a marker, and an
\* unterminated marker followed it.
C24_Witness ==
  /\ interp.done
  /\ DOMAIN interp.params = {}
  /\ interp.chunks = <<EnvMarker("N"), EnvOpen \o <<"N">>>>
  /\ interp.env = [n \in {<<"N">>} |-> EnvMarker("N")]
  /\ interp.out = EnvMarker("N") \o EnvOpen \o <<"N">>

(***************************************************************************)
(* The templates read for a tenant (checked under SpecRead)                *)
(***************************************************************************)
\* The calls that have read their templates.
ReadCalls == {call \in EnvCalls : call.reads = 1}

\* A relative path with every backslash turned into a slash.
Slashed(rel) == [i \in DOMAIN rel |-> IF rel[i] = "\\" THEN "/" ELSE rel[i]]

\* The included files of a root by their place in the walk.
IncludedAt(tree, root) ==
  IF root \notin DOMAIN tree THEN {}
  ELSE {i \in DOMAIN tree[root] : should_include(tree[root][i].rel)}

\* The content a root gives under a key: that of the last included file of the
\* walk whose slashed relative path is the key.
ContentOf(tree, root, key) ==
  LET same == {i \in IncludedAt(tree, root) : Slashed(tree[root][i].rel) = key}
  IN tree[root][CHOOSE i \in same : \A j \in same : j <= i].content

KeysOf(tree, root) ==
  {Slashed(tree[root][i].rel) : i \in IncludedAt(tree, root)}

\* C25 as stated: the templates of the environment built for a tenant are the
\* included files of the shared root and of the tenant's root, keyed by
\* relative path; the tenant's content is used for a path of both roots, the
\* shared content for a path of the shared root alone.
C25_TenantOverridesShared ==
  \A call \in ReadCalls :
    LET shared == IncludedFiles(tmpl.tree, Shared)
        own == IncludedFiles(tmpl.tree, call.tenant)
    IN /\ DOMAIN call.env = {f.rel : f \in shared \cup own}
       /\ \A f \in own : call.env[f.rel] = f.content
       /\ \A f \in shared :
            (\A g \in own : g.rel # f.rel) => call.env[f.rel] = f.content

\* C25 amended: the same with each file keyed by its relative path with every
\* backslash turned into a slash, a root giving under a key the last of its
\* files the walk meets.
C25_TenantOverridesSharedByKey ==
  \A call \in ReadCalls :
    LET shared == KeysOf(tmpl.tree, Shared)
        own == KeysOf(tmpl.tree, call.tenant)
    IN /\ DOMAIN call.env = shared \cup own
       /\ \A key \in own : call.env[key] = ContentOf(tmpl.tree, call.tenant, key)
       /\ \A key \in shared \ own : call.env[key] = ContentOf(tmpl.tree, Shared, key)

\* The tenant overrides the shared index.html, a/b.html is the shared root's
\* alone, and files of both roots are left out.
C25_Witness ==
  \E call \in ReadCalls :
    /\ call.tenant = Acme
    /\ DOMAIN call.env = {IndexHtml, <<"a", "/", "b", ".", "html">>}
    /\ call.env[IndexHtml] = "t index"
    /\ Shared \in DOMAIN tmpl.tree
    /\ \E i \in DOMAIN tmpl.tree[Shared] : tmpl.tree[Shared][i].rel = IndexHtml
    /\ call.env[<<"a", "/", "b", ".", "html">>] = "s a-slash-b"
    /\ \E i \in DOMAIN tmpl.tree[Shared] : ~should_include(tmpl.tree[Shared][i].rel)

(***************************************************************************)
(* The file of a MockFile source (checked under SpecData)                  *)
(***************************************************************************)
\* The mock-data root: MOCK_DATA_DIR, or mock-data when it is unset.
MockRoot ==
  IF <<"MOCK_DATA_DIR">> \in DOMAIN ProcessEnv
  THEN ProcessEnv[<<"MOCK_DATA_DIR">>] ELSE <<"mock-data">>

\* A file path that lies under the root: it starts with the root and no
\* component of it steps out by "..".
UnderRoot(file) ==
  /\ StartsWith(file, MockRoot \o <<"/">>)
  /\ \A i \in DOMAIN file : file[i] # ".."

\* The resolutions of the sources that parse as MockFile.
MockFileReads ==
  {e \in Resolutions :
     ~NotAConfig(e.source) /\ e.source.v["provider"].v = <<"mock_file">>}

\* C26: for every MockFile source path, absolute paths and paths with ".."
\* components included, the file read lies under the mock-data root: the path
\* the read is given does, and a value read comes from a file that does.
C26_MockFileUnderRoot ==
  \A e \in MockFileReads :
    /\ UnderRoot(path_join(MockRoot, e.source.v["path"].v))
    /\ e.st = "ok" =>
         \E file \in DOMAIN MockFs :
           UnderRoot(file) /\ from_str(MockFs[file]) = Parsed(e.val)

(***************************************************************************)
(* Tenant resolution (checked under SpecResolve)                           *)
(***************************************************************************)
\* C27: TenantResolver::resolve returns the slug exactly as it was given,
\* whatever the request headers are, when the slug is in the configured
\* tenant list or has a route list, and fails with the tenant-not-found error
\* otherwise.
C27_ResolveReturnsGivenSlug ==
  rd.steps # <<>> =>
    IF rd.req.tenant \in {Acme, Beta, Shared}
    THEN /\ rd.tenant = rd.req.tenant
         /\ rd.pc = "find_route"
         /\ response = NoResponse
    ELSE /\ rd.pc = "done"
         /\ rd.tenant = <<>>
         /\ response.status # 200
         /\ response.body = "tenant not found"

\* A slug that only has a route list was resolved under a Host header naming
\* another tenant.
C27_Witness ==
  /\ rd.steps = <<"resolve">>
  /\ rd.req.tenant = Shared
  /\ rd.req.headers = [h \in {"host"} |-> Beta]
  /\ rd.tenant = Shared

(***************************************************************************)
(* The end of from_source (checked under SpecData)                         *)
(***************************************************************************)
\* C28: whatever the top-level source and the JSON type of its resolved value
\* (object, null, array, string, number, boolean), from_source ends by
\* returning a context or an error and never aborts the task of the request;
\* so does a top-level DbQuery source, whose result is an array.
C28_FromSourceNeverAborts ==
  /\ ds.out.st \in {"start", "pending", "ok", "err"}
  /\ (ds.out.st # "start" /\ ds.source = ObjOf(<<<<"provider", Word("db_query")>>,
                                              <<"sql", Word("select 1")>>>>))
       => ds.out.st \in {"ok", "err"}

(***************************************************************************)
(* The scan and the read of one env_for (checked under SpecTmpl)           *)
(***************************************************************************)
\* C29: in every reachable state of the cache, whatever the interleaving of
\* env_for calls and directory changes, the environment of each entry holds
\* the templates of the directory its fingerprint was computed over: the
\* scan and the read of one env_for see the same directory.
C29_EntryBuiltFromScannedTree ==
  \A tenant_slug \in DOMAIN env_cache :
    /\ env_cache[tenant_slug].fingerprint =
         scan_fingerprint(tmpl.basis[tenant_slug], tenant_slug)
    /\ env_cache[tenant_slug].env = read_templates(tmpl.basis[tenant_slug], tenant_slug)

\* C30: as long as no state of a root the tenant reads comes back and each
\* has metadata (relative paths, sizes, modification times) of its own, the
\* environment an env_for call returns is never built from a tree state older
\* than the one its own scan saw, under every interleaving of calls and
\* changes; so a call that starts after the last change returns the templates
\* of the final directory.
C30_NeverOlderThanScan ==
  \A call \in EnvCalls :
    (TreeFresh(call.tenant) /\ call.pc = "done") =>
      /\ call.built >= call.scan_version
      /\ call.scan_version = TreeVersion(call.tenant) =>
           call.env = read_templates(tmpl.tree, call.tenant)

\* A call of acme has scanned before a change of acme's tree state and read
\* after it; another call of acme, started after the change, has ended with
\* the templates of the directory as it is.
C30_Witness ==
  /\ TreeFresh(Acme)
  /\ TreeVersion(Acme) >= 1
  /\ \E call \in EnvCalls :
       /\ call.pc = "done" /\ call.tenant = Acme
       /\ call.scan_version < call.built
  /\ \E call \in EnvCalls :
       /\ call.pc = "done" /\ call.tenant = Acme
       /\ call.scan_version = TreeVersion(Acme)
       /\ call.env = read_templates(tmpl.tree, Acme)

(***************************************************************************)
(* The environments env_for has returned (checked under SpecTmpl)          *)
(***************************************************************************)
\* C31: an environment env_for has returned is never changed afterwards: a
\* call that has returned keeps the templates it was given through every
\* later step, and a rebuild puts a newly read environment into the cache
\* entry of its tenant instead of changing the one that was there.
C31_ReturnedEnvNeverMutated ==
  [][/\ \A c \in DOMAIN tmpl.calls :
          tmpl.calls[c].pc = "done" => tmpl'.calls[c] = tmpl.calls[c]
     /\ \A c \in DOMAIN tmpl.calls :
          (tmpl.calls[c].pc = "insert" /\ tmpl'.calls[c].pc = "done") =>
            /\ tmpl.calls[c].reads = 1
            /\ tmpl'.calls[c].env = tmpl.calls[c].env
            /\ env_cache'[tmpl.calls[c].tenant].env = tmpl.calls[c].env
    ]_vars

\* A call of acme has returned; after a change a later call of acme has
\* rebuilt and stored an environment with other templates, and the first call
\* still has the templates of the directory before the change.
C31_Witness ==
  \E c1, c2 \in DOMAIN tmpl.calls :
    /\ c1 < c2
    /\ tmpl.calls[c1].pc = "done" /\ tmpl.calls[c2].pc = "done"
    /\ tmpl.calls[c1].tenant = Acme /\ tmpl.calls[c2].tenant = Acme
    /\ tmpl.calls[c2].wrote
    /\ env_cache[Acme].env = tmpl.calls[c2].env
    /\ tmpl.calls[c1].env # tmpl.calls[c2].env
    /\ tmpl.calls[c1].env = read_templates(StartTree, Acme)

(***************************************************************************)
(* The tenants of the template cache (checked under SpecTmpl)              *)
(***************************************************************************)
\* The directory with the shared root and the tenant's own root alone.
OwnRoots(tree, tenant_slug) ==
  [root \in DOMAIN tree \cap {Shared, tenant_slug} |-> tree[root]]

\* C32: the fingerprint and the environment of an env_for call of a tenant
\* depend on the shared root and the tenant's own root alone; a hit returns
\* the environment of the tenant's own entry; a change under the root of
\* another tenant does not change the tenant's fingerprint, and a call
\* rebuilds only when the tenant has no entry or the entry's fingerprint was
\* computed over other shared or own files.
C32_TenantIsolation ==
  [][/\ \A c \in DOMAIN tmpl'.calls :
          LET after == tmpl'.calls[c]
              own == OwnRoots(tmpl.tree, after.tenant)
          IN IF c \notin DOMAIN tmpl.calls
             THEN after.fingerprint = scan_fingerprint(own, after.tenant)
             ELSE LET call == tmpl.calls[c] IN
               /\ (call.pc = "read" /\ after.pc = "insert") =>
                    after.env = read_templates(own, call.tenant)
               /\ (call.pc = "get" /\ after.pc = "done") =>
                    /\ call.tenant \in DOMAIN env_cache
                    /\ after.env = env_cache[call.tenant].env
               /\ (call.pc = "get" /\ after.pc = "read") =>
                    ~(/\ after.seen.some
                      /\ OwnRoots(after.seen_basis.v, call.tenant)
                           = OwnRoots(call.scanned, call.tenant))
     /\ \A tenant_slug \in TmplTenants :
          (tmpl'.changes > tmpl.changes /\ tmpl'.last.root \notin {Shared, tenant_slug}) =>
            scan_fingerprint(tmpl'.tree, tenant_slug)
              = scan_fingerprint(tmpl.tree, tenant_slug)
    ]_vars

\* After a change under acme's root a call of beta has found the entry an
\* earlier call of beta stored before the change, and has returned its
\* environment without a rebuild.
C32_Witness ==
  /\ tmpl.changes >= 1
  /\ tmpl.last.root = Acme
  /\ \E call \in EnvCalls :
       /\ call.tenant = Beta /\ call.pc = "done" /\ call.hit
       /\ call.started = tmpl.changes
       /\ call.seen_basis.v # call.scanned

(***************************************************************************)
(* The files of a fingerprint and the files of a template set (checked     *)
(* under SpecRead)                                                         *)
(***************************************************************************)

\* The rule of inclusion in its own words: the last segment of the path does
\* not start with "." and either holds no "." at all or ends in "." followed
\* by one of the five extensions.
IncludedByRule(rel) ==
  LET slashes == {i \in DOMAIN rel : rel[i] = "/"}
      start == IF slashes = {} THEN 1
               ELSE (CHOOSE i \in slashes : \A j \in slashes : j <= i) + 1
      name == SubSeq(rel, start, Len(rel))
  IN /\ name # <<>>
     /\ name[1] # "."
     /\ \/ \A i \in DOMAIN name : name[i] # "."
        \/ /\ Len(name) >= 2
           /\ name[Len(name) - 1] = "."
           /\ name[Len(name)] \in {"html", "jinja", "j2", "txt", "jinja2"}

\* The relative paths a root's fingerprint has hashed.
HashedPaths(tree, root) ==
  LET writes == fingerprint_for(tree, root).writes
  IN {writes[i][1] : i \in DOMAIN writes}

\* A root's files with one file added at the end of the walk, with the file
\* at position k removed, and with the file at position k rewritten.
FileAdded(files, file) == Append(files, file)
FileRemoved(files, k) == RemoveAt(files, k)
FileRewritten(files, k) ==
  [files EXCEPT ![k] = [@ EXCEPT !.content = @ \o " again", !.len = @ + 1,
                                   !.mtime = @ + 1]]

\* A root's files after each change of one file, with the path of the file.
OneFileChanges(files) ==
  {[rel |-> FileMenu("n")[m].rel, files |-> FileAdded(files, FileMenu("n")[m])] :
     m \in {m \in DOMAIN FileMenu("n") :
              \A i \in DOMAIN files : files[i].rel # FileMenu("n")[m].rel}}
  \cup {[rel |-> files[k].rel, files |-> FileRemoved(files, k)] : k \in DOMAIN files}
  \cup {[rel |-> files[k].rel, files |-> FileRewritten(files, k)] : k \in DOMAIN files}

\* C33: a root's fingerprint hashes exactly the files the rule includes and
\* the root's template set holds exactly those files, under their keys; the
\* change of one excluded file changes neither the fingerprint nor the
\* template set, and a change that gives the root another set of template
\* paths gives it another fingerprint.
C33_FingerprintCoversTemplates ==
  \A call \in ReadCalls :
    \A root \in DOMAIN tmpl.tree \cap {Shared, call.tenant} :
      LET files == tmpl.tree[root]
          fingerprint == fingerprint_for(tmpl.tree, root)
          templates == load_templates(tmpl.tree, root)
      IN /\ HashedPaths(tmpl.tree, root)
              = {files[i].rel : i \in {i \in DOMAIN files : IncludedByRule(files[i].rel)}}
         /\ DOMAIN templates
              = {Slashed(rel) : rel \in HashedPaths(tmpl.tree, root)}
         /\ \A change \in OneFileChanges(files) :
              LET tree == [tmpl.tree EXCEPT ![root] = change.files]
              IN /\ ~IncludedByRule(change.rel) =>
                      /\ fingerprint_for(tree, root) = fingerprint
                      /\ load_templates(tree, root) = templates
                 /\ DOMAIN load_templates(tree, root) # DOMAIN templates =>
                      fingerprint_for(tree, root) # fingerprint

\* The templates of acme have been read from a root that holds a file without
\* an extension, a file of a listed extension, a file of another extension
\* and a hidden file.
C33_Witness ==
  \E call \in ReadCalls :
    /\ call.tenant = Acme
    /\ Acme \in DOMAIN tmpl.tree
    /\ LET paths == rels(tmpl.tree[Acme])
       IN /\ {<<"README">>, <<"index", ".", "html">>, <<"logo", ".", "png">>,
               <<".", "draft", ".", "html">>} \subseteq paths
          /\ HashedPaths(tmpl.tree, Acme) # paths
          /\ <<"README">> \in DOMAIN call.env

(***************************************************************************)
(* The route lookup of the repository (checked under Spec)                 *)
(***************************************************************************)

\* The route a lookup is to give: of the tenant's own list when the
\* configuration has one, of _shared's list otherwise, the first route whose
\* path is the looked-up path, none when the list has no such route.
ExpectedRoute(tenant, path) ==
  LET routes == RepoConfig.routes
      list == IF tenant \in DOMAIN routes THEN routes[tenant]
              ELSE IF Shared \in DOMAIN routes THEN routes[Shared] ELSE <<>>
      hits == {i \in DOMAIN list : list[i].path = path}
  IN IF hits = {} THEN None
     ELSE LET first == CHOOSE i \in hits : \A j \in hits : i <= j
          IN Some([template_name |-> list[first].template_name,
                   data_source |-> list[first].data_source])

\* C34: every route lookup of the dispatcher gives the first route of exactly
\* the looked-up path from the tenant's own list, from _shared's list only for
\* a tenant without a list; a path the tenant's own list lacks is absent even
\* when _shared's list has it.
C34_RouteFromOwnListFirst ==
  [][(rd.pc \in {"find_route", "fallback"}) =>
       /\ Len(rd'.lookups) = Len(rd.lookups) + 1
       /\ rd'.route = ExpectedRoute(rd.tenant, rd'.lookups[Len(rd'.lookups)])
       /\ (rd.tenant \in DOMAIN RepoConfig.routes /\ rd'.route.some) =>
            \E i \in DOMAIN RepoConfig.routes[rd.tenant] :
              RepoConfig.routes[rd.tenant][i].template_name = rd'.route.v.template_name]_vars

\* acme, which has a list, has looked up /about, a path of _shared's list
\* alone, and found no route.
C34_Witness ==
  /\ Reached("find_route")
  /\ rd.pc \notin {"find_route", "fallback"}
  /\ rd.tenant = Acme
  /\ rd.lookups = <<<<"/", "about">>>>
  /\ ~rd.route.some
  /\ ExpectedRoute(Shared, <<"/", "about">>).some

(***************************************************************************)
(* The `data` key of a resolved nested source (checked under SpecData)     *)
(***************************************************************************)

\* C35: a nested source resolved to an object with a `data` key leaves under
\* its key that `data` value alone, a nested source resolved to anything else
\* leaves the resolved value (in the returned context with `query` set by the
\* page step when the key is `page`, the value an object and q given); the
\* resolved top-level payload is not unwrapped: the context keeps every key
\* of it, `data` among them.
C35_OnlyNestedDataUnwrapped ==
  Returned =>
    /\ \A e \in ResolvedNested :
         LET kept == IF is_object(e.val) /\ "data" \in DOMAIN e.val.v
                     THEN e.val.v["data"] ELSE e.val
         IN /\ ds.out.expanded.v[e.key] = kept
            /\ ds.out.ctx.v[e.key] = IF is_object(kept) THEN WithPageQuery(e.key, kept)
                                     ELSE kept
    /\ is_object(ds.out.top) =>
         /\ DOMAIN ds.out.top.v \subseteq DOMAIN ds.out.ctx.v
         /\ (has(ds.out.top, "data") /\ ~has(ds.out.top.v["data"], "provider")) =>
              ds.out.ctx.v["data"] = ds.out.top.v["data"]

\* A nested Http source was answered with an object that has a `data` key and
\* its key holds that `data` alone, next to a nested source resolved to an
\* object without one, which its key holds whole.
C35_Witness ==
  /\ Returned
  /\ \E e \in ResolvedNested :
       /\ e.source = HttpSource(ItemsUrl)
       /\ e.val = Obj([k \in {"data"} |-> Chair])
       /\ ds.out.ctx.v[e.key] = Chair
  /\ \E e \in ResolvedNested :
       /\ ~has(e.val, "data")
       /\ is_object(e.val)
       /\ e.key # "page"
       /\ ds.out.ctx.v[e.key] = e.val

(***************************************************************************)
(* The method of an outbound request (checked under SpecData)              *)
(***************************************************************************)
FiveMethods == {"GET", "POST", "PUT", "PATCH", "DELETE"}

\* The spellings of a method of the five that differ from it in case alone,
\* among the words of the model.
Spellings(m) ==
  CASE m = "GET" -> {"GET", "get"}
    [] m = "POST" -> {"POST", "post", "Post"}
    [] m = "PUT" -> {"PUT", "put"}
    [] m = "PATCH" -> {"PATCH", "patch", "pAtCh"}
    [] m = "DELETE" -> {"DELETE", "delete", "Delete"}

\* C36: every outbound request of an Http source has one of the five methods:
\* GET when the config has no method, the method of the five the configured
\* one spells in whatever case, and GET for a configured string that spells
\* none of them; a request goes out for every Http source resolved.
C36_MethodOneOfFive ==
  LET sources == HttpSourcesOf(ds.out.log)
      calls == ds.out.calls
  IN /\ Len(calls) = Len(sources)
     /\ \A i \in DOMAIN calls :
          LET cfg == sources[i].v
              given == "method" \in DOMAIN cfg /\ cfg["method"].t = "str"
              spelled == IF given
                         THEN {m \in FiveMethods : cfg["method"].v \in {<<w>> : w \in Spellings(m)}}
                         ELSE {}
          IN /\ calls[i].method \in {<<m>> : m \in FiveMethods}
             /\ ~given => calls[i].method = <<"GET">>
             /\ \A m \in spelled : calls[i].method = <<m>>
             /\ (given /\ spelled = {}) => calls[i].method = <<"GET">>

\* An Http source configured with the method HEAD was resolved: its request
\* went out as GET and the answer became the context.
C36_Witness ==
  /\ Returned
  /\ has(ds.source, "method")
  /\ ds.source.v["method"] = Word("head")
  /\ Len(ds.out.calls) = 1
  /\ ds.out.calls[1].method = <<"GET">>

(***************************************************************************)
(* Nothing is tried twice within a request (checked under Spec)            *)
(***************************************************************************)
\* The answer of an upstream that makes the resolution of its source fail.
FailedAnswer(a) == a.k = "refused" \/ BadStatus(a) \/ BadJson(a)

\* C37: within one request tenant resolution, the template load, from_source,
\* the template lookup and the rendering are each entered once at most and the
\* route lookup twice at most, the second time for /product after the first
\* found nothing; within from_source every source is resolved once, every
\* Http source sends one request at most, every request gets one answer at
\* most, and a failed answer ends the resolution of its source: the failed
\* top-level one ends the request with an error, after which nothing else is
\* done.
C37_NothingTriedTwice ==
  /\ \A step \in {"resolve", "env_for", "from_source", "get_template", "render"} :
       Count(step) <= 1
  /\ Count("find_route") = Len(rd.lookups)
  /\ Len(rd.lookups) <= 2
  /\ Len(rd.lookups) = 2 =>
       /\ ~ExpectedRoute(rd.tenant, rd.lookups[1]).some
       /\ rd.lookups[2] = <<"/", "product">>
  /\ Reached("from_source") =>
       LET log == rd.out.log
           https == {i \in DOMAIN log :
                       /\ ~NotAConfig(log[i].source)
                       /\ log[i].source.v["provider"].v = <<"http">>}
           nth(n) == CHOOSE i \in https : Cardinality({j \in https : j <= i}) = n
       IN /\ \A i, j \in DOMAIN log : log[i].key = log[j].key => i = j
          /\ Len(rd.out.calls) = Cardinality(https)
          /\ Count("answer") = Len(rd.answers)
          /\ Len(rd.answers) <= Len(rd.out.calls)
          /\ \A n \in DOMAIN rd.answers :
               FailedAnswer(rd.answers[n]) =>
                 /\ log[nth(n)].st = "err"
                 /\ nth(n) = 1 => (rd.out.st = "err" /\ n = Len(rd.answers))
  /\ IsError => rd.pc = "done"

\* Both nested Http sources of /docs/ were refused by the upstream: two
\* requests went out, one for each, and the request went on to its template.
C37_Witness ==
  /\ rd.req.path = Some(<<"docs", "/">>)
  /\ rd.tenant = Acme
  /\ Len(rd.out.calls) = 2
  /\ Len(rd.answers) = 2
  /\ \A n \in DOMAIN rd.answers : rd.answers[n].k = "refused"
  /\ rd.out.st = "ok"
  /\ Reached("get_template")

(***************************************************************************)
(* Roots that are missing (checked under SpecRead)                         *)
(***************************************************************************)
NoTemplates == [n \in {} |-> ""]

\* The roots of a tenant that the directory does not have.
MissingRoots(tenant_slug) == {Shared, tenant_slug} \ DOMAIN tmpl.tree

\* C38: a missing root hashes to the fixed value 0 and gives no templates; a
\* call for a tenant whose two roots are missing ends with an environment
\* without templates, cached under the fingerprint of two missing roots; and
\* the fingerprint computed once a missing root is created with one included
\* file in it differs from the one computed while it was missing.
C38_MissingRootIsEmpty ==
  \A call \in EnvCalls :
    /\ \A root \in MissingRoots(call.tenant) :
         /\ fingerprint_for(tmpl.tree, root) = Zero
         /\ load_templates(tmpl.tree, root) = NoTemplates
         /\ call.fingerprint.writes[IF root = Shared THEN 1 ELSE 2] = Zero
         /\ \A m \in DOMAIN FileMenu("n") :
              IncludedByRule(FileMenu("n")[m].rel) =>
                LET created == [r \in DOMAIN tmpl.tree \cup {root} |->
                                  IF r = root THEN <<FileMenu("n")[m]>> ELSE tmpl.tree[r]]
                IN /\ fingerprint_for(created, root) # Zero
                   /\ scan_fingerprint(created, call.tenant) # call.fingerprint
    /\ MissingRoots(call.tenant) = {Shared, call.tenant} =>
         /\ call.pc \in {"insert", "done"}
         /\ call.env = NoTemplates
         /\ call.fingerprint = Finish(<<Zero, Zero>>)
         /\ call.pc = "done" =>
              env_cache[call.tenant] = CachedEnvironment(NoTemplates, Finish(<<Zero, Zero>>))

\* The call of acme has ended with the directory holding neither _shared nor
\* acme: its environment has no template.
C38_Witness ==
  \E call \in EnvCalls :
    /\ call.tenant = Acme
    /\ call.pc = "done"
    /\ DOMAIN tmpl.tree = {}
    /\ Acme \in DOMAIN env_cache
    /\ DOMAIN env_cache[Acme].env = {}

(***************************************************************************)
(* The searchable text of a prepared catalog (checked under SpecCatalog)   *)
(***************************************************************************)
IsBlank(text) == \A i \in DOMAIN text : text[i] = " "
NonBlank(value) == value.some /\ ~IsBlank(value.v)
IsLowerCased(text) ==
  \A i \in DOMAIN text :
    text[i] \in {" ", "sample", "chair", "oak", "leather;", "walnut", "brown", "tall", "xl"}

\* The text fields prepare_catalog reads: six of the item, five of each of
\* its variations.
TextSources(furniture) ==
  {furniture.name, furniture.slug, furniture.description_text,
   furniture.quick_description, furniture.quick_specifications,
   furniture.specifications}
  \cup UNION {{v.name, v.quick_description, v.quick_specifications, v.color,
               v.secondary_color} :
                v \in {furniture.variations[i] : i \in DOMAIN furniture.variations}}

\* Every text field of an item's variations, `description` and `size` too.
VariationTexts(furniture) ==
  UNION {{v.name, v.quick_description, v.quick_specifications, v.color,
          v.secondary_color, v.description, v.size} :
           v \in {furniture.variations[i] : i \in DOMAIN furniture.variations}}

\* The words of `part`, in a row, somewhere in `text`.
Within(part, text) ==
  \E k \in 0..(Len(text) - Len(part)) : SubSeq(text, k + 1, k + Len(part)) = part

\* C39 as stated: in a prepared catalog every item with a non-blank name,
\* slug, description or variation text field has a non-empty, lower-cased
\* searchable_text, an item whose searchable_text was not blank is as it
\* was, and preparing the catalog again changes nothing.
C39_PreparedTextLowerCased ==
  catalog.prepared >= 1 =>
    /\ \A i \in DOMAIN catalog.items :
         LET before == catalog.decoded[i]
             after == catalog.items[i]
         IN /\ (\E value \in {before.name, before.slug, before.description_text,
                               before.quick_description} \cup VariationTexts(before) :
                  NonBlank(value))
                 => (after.searchable_text # <<>> /\ IsLowerCased(after.searchable_text))
            /\ ~IsBlank(before.searchable_text) => after = before
    /\ prepare_catalog(catalog.items) = catalog.items

\* C39 amended: in a prepared catalog an item whose searchable_text was blank
\* differs from the decoded item in its searchable_text alone, which is
\* lower-cased, starts and ends with a word, holds the trimmed lower-cased
\* words of every non-blank field among name, slug, description_text,
\* quick_description, quick_specifications, specifications and each
\* variation's name, quick_description, quick_specifications, color and
\* secondary_color, and is empty exactly when all of those are absent or
\* blank; an item whose searchable_text was not blank is as it was, whatever
\* its case; preparing the catalog again changes nothing.
C39_BlankTextRebuilt ==
  catalog.prepared >= 1 =>
    /\ Len(catalog.items) = Len(catalog.decoded)
    /\ \A i \in DOMAIN catalog.items :
         LET before == catalog.decoded[i]
             after == catalog.items[i]
             text == after.searchable_text
         IN /\ ~IsBlank(before.searchable_text) => after = before
            /\ IsBlank(before.searchable_text) =>
                 /\ after = [before EXCEPT !.searchable_text = text]
                 /\ IsLowerCased(text)
                 /\ text # <<>> => (text[1] # " " /\ text[Len(text)] # " ")
                 /\ text # <<>> <=> \E value \in TextSources(before) : NonBlank(value)
                 /\ \A value \in TextSources(before) :
                      NonBlank(value) => Within(to_lowercase(trim(value.v)), text)
    /\ prepare_catalog(catalog.items) = catalog.items
    /\ catalog.prepared >= 2 => catalog.items = prepare_catalog(catalog.decoded)

\* A catalog prepared twice: the text of its first item was rebuilt from the
\* name and the colour of a variation, its second item kept a text in capitals.
C39_Witness ==
  /\ catalog.prepared = 2
  /\ Len(catalog.items) = 2
  /\ catalog.decoded[1].searchable_text = <<" ", " ">>
  /\ catalog.items[1].searchable_text
       = <<"sample", " ", "chair", " ", "walnut", " ", "brown">>
  /\ catalog.items[2].searchable_text = <<"Oak", " ", "CHAIR">>
  /\ catalog.items[2].name = Some(<<"Sample", " ", "Chair">>)

====
